---- MODULE Spec2Model ----
(***************************************************************************)
(* Model of the coach matching service (matching-service/).                *)
(*                                                                         *)
(* MatchingService.find_matches and the roster refresh behind it are the   *)
(* operations; RedisService is the shared cache; Config supplies weights   *)
(* and thresholds read from the environment at start.                      *)
(*                                                                         *)
(* Python floats are modelled as exact rationals <<n, d>> (d > 0, lowest   *)
(* terms), so a score is compared and combined exactly.                    *)
(***************************************************************************)
EXTENDS Integers, Sequences, FiniteSets, TLC

(***************************************************************************)
(* Rationals                                                               *)
(***************************************************************************)
RECURSIVE GCD(_, _)
GCD(a, b) == IF b = 0 THEN a ELSE GCD(b, a % b)

Abs(x) == IF x < 0 THEN 0 - x ELSE x

\* (an operator's argument is evaluated once; a LET definition is evaluated
\* at every use, so values used more than once are passed as arguments)
Reduce(n, d, g) == <<n \div g, d \div g>>
Rat(n, d) == Reduce(n, d, GCD(Abs(n), d))

RInt(i) == <<i, 1>>

RAdd(a, b) == Rat(a[1] * b[2] + b[1] * a[2], a[2] * b[2])
RSub(a, b) == Rat(a[1] * b[2] - b[1] * a[2], a[2] * b[2])
RMul(a, b) == Rat(a[1] * b[1], a[2] * b[2])
\* a / b for b # 0 (every division of the source is guarded or has a
\* non-zero literal divisor)
RDiv(a, b) == IF b[1] > 0 THEN Rat(a[1] * b[2], a[2] * b[1])
                          ELSE Rat((0 - a[1]) * b[2], a[2] * (0 - b[1]))
RLe(a, b) == a[1] * b[2] <= b[1] * a[2]
RLt(a, b) == a[1] * b[2] < b[1] * a[2]
RGe(a, b) == RLe(b, a)
RGt(a, b) == RLt(b, a)
RMin(a, b) == IF RLe(a, b) THEN a ELSE b
RMax(a, b) == IF RGe(a, b) THEN a ELSE b

Zero == RInt(0)
One == RInt(1)
Half == Rat(1, 2)

RECURSIVE RSum(_)
RSum(s) == IF s = <<>> THEN Zero ELSE RAdd(Head(s), RSum(Tail(s)))

\* the [0,1] range that Field(..., ge=0.0, le=1.0) accepts
InUnit(x) == RLe(Zero, x) /\ RLe(x, One)

(***************************************************************************)
(* Sequence helpers                                                        *)
(***************************************************************************)
Range(s) == {s[i] : i \in 1..Len(s)}

RECURSIVE SelectSeqBy(_, _)
\* the subsequence of s at the positions whose element is in keep
SelectSeqBy(s, keep) ==
    IF s = <<>> THEN <<>>
    ELSE IF Head(s) \in keep THEN <<Head(s)>> \o SelectSeqBy(Tail(s), keep)
         ELSE SelectSeqBy(Tail(s), keep)

Take(s, n) == IF Len(s) <= n THEN s ELSE SubSeq(s, 1, n)

\* every ordering of a finite set, as sequences
Perms(S) == {p \in [1..Cardinality(S) -> S] : \A x \in S : \E i \in DOMAIN p : p[i] = x}

(***************************************************************************)
(* Enumerations (request_models.py)                                        *)
(***************************************************************************)
ExpertiseLevel == {"beginner", "intermediate", "expert", "master"}
SessionType == {"one_on_one", "group", "workshop", "mentoring"}

\* str.lower() on the skill names and level strings the model uses
Lower(s) ==
    CASE s = "React" -> "react"
      [] s = "Node.js" -> "node.js"
      [] s = "Product Strategy" -> "product strategy"
      [] s = "Agile" -> "agile"
      [] s = "Expert" -> "expert"
      [] OTHER -> s

(***************************************************************************)
(* Optional[float]: <<>> is None, <<v>> a value.  Truthy is Python's truth *)
(* test on it: None and 0 are both false.                                  *)
(***************************************************************************)
None == <<>>
Some(v) == <<v>>
Truthy(o) == o # <<>> /\ o[1] # 0

(***************************************************************************)
(* Config (config/settings.py): the values read from the environment when  *)
(* the class body runs.  DefaultConfig holds the defaults of the source;    *)
(* the others override single variables.                                   *)
(***************************************************************************)
COACH_DATA_TTL == 3600

DefaultConfig ==
    [ MAX_MATCHES_PER_REQUEST |-> 10,
      MIN_MATCH_SCORE         |-> Rat(6, 10),
      SKILL_MATCH_WEIGHT      |-> Rat(30, 100),
      EXPERIENCE_WEIGHT       |-> Rat(25, 100),
      RATING_WEIGHT           |-> Rat(20, 100),
      AVAILABILITY_WEIGHT     |-> Rat(15, 100),
      PRICE_WEIGHT            |-> Rat(10, 100) ]

\* MAX_MATCHES_PER_REQUEST=1 in the environment
SmallPageConfig == [DefaultConfig EXCEPT !.MAX_MATCHES_PER_REQUEST = 1]

\* SKILL_MATCH_WEIGHT=-0.5 in the environment (nothing rejects it: the
\* service never calls validate_config)
NegativeWeightConfig == [DefaultConfig EXCEPT !.SKILL_MATCH_WEIGHT = Rat(-1, 2)]

\* every weight 0 in the environment
ZeroWeightConfig ==
    [DefaultConfig EXCEPT !.SKILL_MATCH_WEIGHT = Zero, !.EXPERIENCE_WEIGHT = Zero,
                          !.RATING_WEIGHT = Zero, !.AVAILABILITY_WEIGHT = Zero,
                          !.PRICE_WEIGHT = Zero]

\* Config.get_matching_weights
get_matching_weights(cfg) ==
    LET weights == [ skills       |-> cfg.SKILL_MATCH_WEIGHT,
                     experience   |-> cfg.EXPERIENCE_WEIGHT,
                     rating       |-> cfg.RATING_WEIGHT,
                     availability |-> cfg.AVAILABILITY_WEIGHT,
                     price        |-> cfg.PRICE_WEIGHT ]
        total_weight == RSum(<<weights.skills, weights.experience, weights.rating,
                               weights.availability, weights.price>>)
    IN IF RGt(total_weight, Zero)
       THEN [k \in DOMAIN weights |-> RDiv(weights[k], total_weight)]
       ELSE weights

(***************************************************************************)
(* Coach profiles.  A profile keeps the fields the matching code reads.    *)
(***************************************************************************)
Skill(name, level, years) == [name |-> name, level |-> level, years_experience |-> years]
Avail(day) == [day_of_week |-> day]

\* MatchingService._get_mock_coaches
_get_mock_coaches ==
    << [ coach_id |-> "coach_1",
         skills |-> <<Skill("React", "expert", 6), Skill("Node.js", "expert", 5)>>,
         total_experience_years |-> 8,
         availability |-> <<Avail(1), Avail(3)>>,
         hourly_rate |-> 150,
         rating |-> Rat(48, 10),
         total_sessions |-> 127,
         success_rate |-> Rat(91, 100),
         languages |-> <<"English", "Spanish">>,
         max_participants |-> 5,
         session_types |-> <<"one_on_one", "group">>,
         is_active |-> TRUE,
         can_accept_new_clients |-> TRUE ],
       [ coach_id |-> "coach_2",
         skills |-> <<Skill("Product Strategy", "expert", 7), Skill("Agile", "expert", 6)>>,
         total_experience_years |-> 10,
         availability |-> <<Avail(2)>>,
         hourly_rate |-> 120,
         rating |-> Rat(49, 10),
         total_sessions |-> 89,
         success_rate |-> Rat(94, 100),
         languages |-> <<"English", "Mandarin">>,
         max_participants |-> 10,
         session_types |-> <<"group", "workshop">>,
         is_active |-> TRUE,
         can_accept_new_clients |-> TRUE ] >>

(***************************************************************************)
(* State                                                                   *)
(***************************************************************************)
VARIABLES
    config,               \* the Config values the process started with
    itemFault,            \* coach ids whose nested skill/availability entries
                          \* raise on item access (entry['day_of_week'])
    weights,              \* MatchingService.weights
    coaches_cache,        \* MatchingService.coaches_cache (the in-memory roster)
    last_coach_refresh,   \* "min" (datetime.min), "recent" (within the refresh
                          \* interval) or "old" (more than the interval ago)
    redis_coaches,        \* Redis keys coach:<id>: id -> [data, ttl]
    redis_results,        \* Redis keys match_result:<request_id>
    redis_stats,          \* Redis sorted set processing_stats, oldest first
    total_requests_processed,
    total_matches_generated,
    average_processing_time,
    last_processing_time,
    call,                 \* the public call made by the last step (NoCall when
                          \* the last step was the environment's): what it was
                          \* given, what it did to its collaborators, what it
                          \* returned
    threads,              \* the find_matches calls running in threads of the
                          \* process (Flask request threads, the Kafka consumer
                          \* thread): per thread its position and its locals
    roster_version,       \* the identity of the list object that
                          \* self.coaches_cache refers to (a new number for
                          \* every list bound to the attribute)
    reply,                \* what the last handler run (manual_match or
                          \* handle_matching_request) was given, what it read
                          \* from the service and what it answered
    published,            \* the messages KafkaService.publish_response
                          \* delivered, oldest first: [topic, request_id]
    consumer              \* the consumer thread in KafkaService.start_consumer:
                          \* its position, self.is_running, whether
                          \* stop_consumer was called, whether
                          \* self.consumer.close() ran

vars == <<config, itemFault, weights, coaches_cache, last_coach_refresh,
          redis_coaches, redis_results, redis_stats, total_requests_processed,
          total_matches_generated, average_processing_time,
          last_processing_time, call, threads, roster_version,
          reply, published, consumer>>

\* the state of the HTTP and Kafka front (app.py, kafka_service.py)
apiVars == <<reply, published, consumer>>

\* the threads that call find_matches on the one MatchingService
NumThreads == 2

Threads == 1..NumThreads

\* a thread outside find_matches, and the locals of a call: the request,
\* whether Redis answers it, the list its refresh built (an Optional) and the
\* writes to self.coaches_cache still to make, the list object its
\* comprehension iterates (version, and snapshot: what the object held when
\* the attribute was loaded), the iterator's index, the coaches collected,
\* len(match_results), whether it reached _update_statistics, and the value
\* read by the "+=" it is in
IdleThread ==
    [ pc |-> "idle", request |-> <<>>, redis_up |-> FALSE, built |-> <<>>,
      path |-> "none", pending |-> <<>>, version |-> 0, snapshot |-> <<>>,
      index |-> 0, coaches |-> <<>>, matches_found |-> 0, counted |-> FALSE,
      read |-> 0 ]

NoThreads == [t \in Threads |-> IdleThread]

(***************************************************************************)
(* Results of code that may raise                                          *)
(***************************************************************************)
Ok(v) == [raised |-> FALSE, value |-> <<v>>]
Raise == [raised |-> TRUE, value |-> <<>>]
Val(r) == r.value[1]

\* Reading entry['name'] / entry['level'] / entry['day_of_week'] of the
\* entries of a coach's list.  The entries of CoachProfile.skills and
\* CoachProfile.availability are declared as CoachSkill / CoachAvailability
\* (request_models.py 92-104), and item access on an entry succeeds or raises
\* TypeError with the class the entry has at run time.  itemFault is the set
\* of coaches whose entries raise: nothing is read from an empty list;
\* otherwise the first entry read raises for a coach in itemFault.
ItemAccessRaises(coach, entries) == entries # <<>> /\ coach.coach_id \in itemFault

(***************************************************************************)
(* Hard filters (matching_service.py 344-380)                              *)
(***************************************************************************)
coach_days(coach) == {coach.availability[i].day_of_week : i \in DOMAIN coach.availability}
request_days(request) == Range(request.availability_requirements.days_of_week)

_has_availability_overlap(coach, request) ==
    IF ItemAccessRaises(coach, coach.availability) THEN Raise
    ELSE Ok((request_days(request) \cap coach_days(coach)) # {})

OverlapStep(overlap) ==
    IF overlap.raised THEN "raise" ELSE IF ~Val(overlap) THEN "skip" ELSE "keep"

\* one iteration of the loop of _apply_hard_filters: "skip" (continue),
\* "keep" (append) or "raise"
HardFilterStep(coach, request) ==
    IF request.session_type \notin Range(coach.session_types) THEN "skip"
    ELSE IF Truthy(request.budget_constraints.max_hourly_rate)
            /\ coach.hourly_rate > request.budget_constraints.max_hourly_rate[1]
         THEN "skip"
    ELSE IF coach.max_participants < request.participants_count THEN "skip"
    ELSE IF ~(\E lang \in Range(request.preferred_languages) : lang \in Range(coach.languages))
         THEN "skip"
    ELSE OverlapStep(_has_availability_overlap(coach, request))

RECURSIVE HardFilterLoop(_, _, _)
HardFilterNext(coaches, request, filtered_coaches, step) ==
    IF step = "raise" THEN Raise
    ELSE HardFilterLoop(Tail(coaches), request,
                        IF step = "keep" THEN Append(filtered_coaches, Head(coaches))
                        ELSE filtered_coaches)

HardFilterLoop(coaches, request, filtered_coaches) ==
    IF coaches = <<>> THEN Ok(filtered_coaches)
    ELSE HardFilterNext(coaches, request, filtered_coaches,
                        HardFilterStep(Head(coaches), request))

_apply_hard_filters(coaches, request) == HardFilterLoop(coaches, request, <<>>)

(***************************************************************************)
(* Scoring (matching_service.py 382-644)                                   *)
(***************************************************************************)
\* Optional: <<>> when no skill of the coach has that name
_find_coach_skill(coach, skill_name) ==
    LET hits == {i \in DOMAIN coach.skills : Lower(coach.skills[i].name) = Lower(skill_name)}
    IN IF hits = {} THEN <<>>
       ELSE <<coach.skills[CHOOSE i \in hits : \A j \in hits : i <= j]>>

SkillLevelNum(level) ==
    CASE level = "beginner" -> 1
      [] level = "intermediate" -> 2
      [] level = "expert" -> 3
      [] level = "master" -> 4
      [] OTHER -> 2

_calculate_skill_level_match(coach_level, required_level) ==
    LET coach_level_num == SkillLevelNum(coach_level)
        required_level_num == SkillLevelNum(required_level)
    IN IF coach_level_num >= required_level_num THEN One
       ELSE Rat(coach_level_num, required_level_num)

\* the contribution of a required skill with the sign of the penalty
\* slipped: a missing mandatory skill adds 0.5 * weight
SkillTermPenaltyAdded(coach_skill, required_skill) ==
    IF coach_skill # <<>>
    THEN RMul(RMin(RAdd(_calculate_skill_level_match(coach_skill[1].level,
                                                     required_skill.level),
                        RMin(Rat(coach_skill[1].years_experience, 5), Rat(2, 10))),
                   One),
              required_skill.weight)
    ELSE IF required_skill.mandatory
         THEN RMul(Half, required_skill.weight)
         ELSE Zero

\* the contribution of one required skill to the running sum `score`,
\* given the coach skill found for it (an Optional)
SkillTerm(coach_skill, required_skill) ==
    IF coach_skill # <<>>
    THEN LET level_score == _calculate_skill_level_match(coach_skill[1].level,
                                                         required_skill.level)
             exp_bonus == RMin(Rat(coach_skill[1].years_experience, 5), Rat(2, 10))
             skill_score == RMin(RAdd(level_score, exp_bonus), One)
         IN RMul(skill_score, required_skill.weight)
    ELSE IF required_skill.mandatory
         THEN RSub(Zero, RMul(Half, required_skill.weight))
         ELSE Zero

SkillScoreOver(coach, request, total_weight) ==
    IF total_weight = Zero THEN Ok(Half)
    ELSE IF ItemAccessRaises(coach, coach.skills) THEN Raise
    ELSE LET score == RSum([i \in DOMAIN request.skills_required |->
                              SkillTerm(_find_coach_skill(coach,
                                            request.skills_required[i].name),
                                        request.skills_required[i])])
         IN Ok(RMax(RDiv(score, total_weight), Zero))

\* the skill score with an empty requirement list scored as nothing matched
SkillScoreEmptyAsZero(coach, request) ==
    IF request.skills_required = <<>> THEN Ok(Zero)
    ELSE SkillScoreOver(coach, request,
                        RSum([i \in DOMAIN request.skills_required |->
                                request.skills_required[i].weight]))

_calculate_skill_score(coach, request) ==
    IF request.skills_required = <<>> THEN Ok(Half)
    ELSE SkillScoreOver(coach, request,
                        RSum([i \in DOMAIN request.skills_required |->
                                request.skills_required[i].weight]))

RequiredYears(level) ==
    CASE level = "beginner" -> 1
      [] level = "intermediate" -> 3
      [] level = "expert" -> 6
      [] level = "master" -> 10
      [] OTHER -> 3

_calculate_experience_score(coach, request) ==
    LET required_years == RequiredYears(request.experience_level)
    IN IF coach.total_experience_years >= required_years
       THEN LET bonus == RMin(Rat(coach.total_experience_years - required_years, 10),
                              Rat(3, 10))
            IN RMin(RAdd(One, bonus), One)
       ELSE Rat(coach.total_experience_years, required_years)

_calculate_availability_score(coach, request) ==
    IF coach.availability = <<>> \/ request.availability_requirements.days_of_week = <<>>
    THEN Ok(Half)
    ELSE IF ItemAccessRaises(coach, coach.availability) THEN Raise
    ELSE LET overlap_days == request_days(request) \cap coach_days(coach)
         IN IF overlap_days = {} THEN Ok(Zero)
            ELSE LET overlap_ratio == Rat(Cardinality(overlap_days),
                                          Cardinality(request_days(request)))
                     flexibility_bonus == RMul(request.availability_requirements.flexibility,
                                               Rat(2, 10))
                 IN Ok(RMin(RAdd(overlap_ratio, flexibility_bonus), One))

_calculate_price_score(coach, request) ==
    IF ~Truthy(request.budget_constraints.max_hourly_rate) THEN Half
    ELSE LET max_rate == RInt(request.budget_constraints.max_hourly_rate[1])
             coach_rate == RInt(coach.hourly_rate)
         IN IF RLe(coach_rate, max_rate)
            THEN IF RLe(coach_rate, RMul(max_rate, Rat(8, 10))) THEN One ELSE Rat(8, 10)
            ELSE LET overage_ratio == RDiv(RSub(coach_rate, max_rate), max_rate)
                 IN RMax(Zero, RSub(Half, overage_ratio))

\* the rating score without its final min(..., 1.0)
RatingScoreUncapped(coach) ==
    IF coach.rating = Zero THEN Half
    ELSE RAdd(RAdd(RDiv(coach.rating, RInt(5)),
                   RMin(Rat(coach.total_sessions, 100), Rat(2, 10))),
              RMul(coach.success_rate, Rat(1, 10)))

_calculate_rating_score(coach) ==
    IF coach.rating = Zero THEN Half
    ELSE LET base_score == RDiv(coach.rating, RInt(5))
             session_bonus == RMin(Rat(coach.total_sessions, 100), Rat(2, 10))
             success_bonus == RMul(coach.success_rate, Rat(1, 10))
         IN RMin(RAdd(RAdd(base_score, session_bonus), success_bonus), One)

\* _get_matching_skills / _get_missing_skills: the required names with /
\* without a coach skill of that name
SkillNames(coach, request, found) ==
    LET idx == {i \in DOMAIN request.skills_required :
                  (_find_coach_skill(coach, request.skills_required[i].name) # <<>>) = found}
        names == [i \in DOMAIN request.skills_required |-> request.skills_required[i].name]
    IN IF ItemAccessRaises(coach, coach.skills) /\ request.skills_required # <<>> THEN Raise
       ELSE Ok([k \in 1..Cardinality(idx) |->
                   names[CHOOSE i \in idx : Cardinality({j \in idx : j < i}) = k - 1]])

_get_matching_skills(coach, request) == SkillNames(coach, request, TRUE)
_get_missing_skills(coach, request) == SkillNames(coach, request, FALSE)

_calculate_availability_overlap(coach, request) ==
    IF request.availability_requirements.days_of_week = <<>> THEN Ok(Zero)
    ELSE IF ItemAccessRaises(coach, coach.availability) THEN Raise
    ELSE Ok(Rat(Cardinality(request_days(request) \cap coach_days(coach)),
                Cardinality(request_days(request))))

_calculate_price_difference(coach, request) ==
    IF ~Truthy(request.budget_constraints.max_hourly_rate) THEN Zero
    ELSE LET max_rate == RInt(request.budget_constraints.max_hourly_rate[1])
         IN RMul(RDiv(RSub(RInt(coach.hourly_rate), max_rate), max_rate), RInt(100))

_generate_recommendation_reason(coach, skill_score, experience_score, rating_score) ==
    LET reasons ==
            (IF RGt(skill_score, Rat(8, 10)) THEN <<"excellent skill match">>
             ELSE IF RGt(skill_score, Rat(6, 10)) THEN <<"good skill alignment">>
             ELSE <<>>)
            \o (IF RGt(experience_score, Rat(8, 10)) THEN <<"extensive experience">> ELSE <<>>)
            \o (IF RGt(rating_score, Rat(8, 10)) THEN <<"highly rated">> ELSE <<>>)
            \o (IF coach.total_sessions > 50 THEN <<"proven track record">> ELSE <<>>)
    IN IF reasons = <<>> THEN <<"meets basic requirements">> ELSE reasons

_calculate_confidence_level(skill_score, experience_score, availability_score, coach) ==
    LET base_confidence == RDiv(RAdd(RAdd(skill_score, experience_score), availability_score),
                                RInt(3))
        boosted == RAdd(base_confidence,
                        IF coach.total_sessions > 20 THEN Rat(1, 10) ELSE Zero)
        boosted2 == RAdd(boosted, IF RGt(coach.rating, Rat(45, 10)) THEN Rat(1, 10) ELSE Zero)
    IN RMin(boosted2, One)

\* the weighted sum of _calculate_match_score, before min(overall_score, 1.0)
OverallScore(w, skill_score, experience_score, availability_score, price_score, rating_score) ==
    RSum(<< RMul(skill_score, w.skills),
            RMul(experience_score, w.experience),
            RMul(availability_score, w.availability),
            RMul(price_score, w.price),
            RMul(rating_score, w.rating) >>)

\* MatchResult without the ge=0.0 / le=1.0 constraints of its fields
MatchResultUnconstrained(fields) == Ok(fields)

\* MatchResult(...): pydantic rejects (raises) a field outside its ge/le range
MatchResult(fields) ==
    IF /\ InUnit(fields.match_score)
       /\ InUnit(fields.skill_score)
       /\ InUnit(fields.experience_score)
       /\ InUnit(fields.availability_score)
       /\ InUnit(fields.price_score)
       /\ InUnit(fields.rating_score)
       /\ InUnit(fields.availability_overlap)
       /\ InUnit(fields.confidence_level)
    THEN Ok(fields)
    ELSE Raise

\* the MatchResult built from the sub-scores and derived fields (all
\* already computed without raising)
BuildMatchResult(coach, request, skill_score, experience_score, availability_score, price_score, rating_score, matching_skills, missing_skills, availability_overlap) ==
    MatchResult(
      [ coach |-> coach,
        match_score |-> RMin(OverallScore(weights, skill_score, experience_score,
                                          availability_score, price_score, rating_score),
                             One),
        skill_score |-> skill_score,
        experience_score |-> experience_score,
        availability_score |-> availability_score,
        price_score |-> price_score,
        rating_score |-> rating_score,
        matching_skills |-> matching_skills,
        missing_skills |-> missing_skills,
        availability_overlap |-> availability_overlap,
        price_difference_percent |-> _calculate_price_difference(coach, request),
        confidence_level |-> _calculate_confidence_level(
             skill_score, experience_score, availability_score, coach),
        recommendation_reason |-> _generate_recommendation_reason(
             coach, skill_score, experience_score, rating_score) ])

MatchScoreFrom(coach, request, skill, availability, matching_skills, missing_skills, availability_overlap) ==
    IF skill.raised \/ availability.raised \/ matching_skills.raised
       \/ missing_skills.raised \/ availability_overlap.raised
    THEN Raise
    ELSE BuildMatchResult(coach, request, Val(skill),
                          _calculate_experience_score(coach, request),
                          Val(availability),
                          _calculate_price_score(coach, request),
                          _calculate_rating_score(coach),
                          Val(matching_skills), Val(missing_skills),
                          Val(availability_overlap))

_calculate_match_score(coach, request) ==
    MatchScoreFrom(coach, request,
                   _calculate_skill_score(coach, request),
                   _calculate_availability_score(coach, request),
                   _get_matching_skills(coach, request),
                   _get_missing_skills(coach, request),
                   _calculate_availability_overlap(coach, request))

\* Config.validate_config: the list of errors for a configuration whose
\* environment sets KAFKA_BOOTSTRAP_SERVERS and REDIS_HOST.  Nothing in
\* create_app or in the services calls it.
validate_config(cfg) ==
    IF \E weight \in {cfg.SKILL_MATCH_WEIGHT, cfg.EXPERIENCE_WEIGHT, cfg.RATING_WEIGHT,
                       cfg.AVAILABILITY_WEIGHT, cfg.PRICE_WEIGHT} :
          ~(RLe(Zero, weight) /\ RLe(weight, One))
    THEN <<"Weight values must be between 0 and 1">>
    ELSE <<>>

(***************************************************************************)
(* CoachProfile validation and the backend's coach format                  *)
(***************************************************************************)
ProfileFields ==
    {"coach_id", "skills", "total_experience_years", "availability", "hourly_rate",
     "rating", "total_sessions", "success_rate", "languages", "max_participants",
     "session_types", "is_active", "can_accept_new_clients"}

\* CoachProfile(**data): the pydantic constructor; raises when a required
\* field is missing or a value is outside its declared range
CoachProfile(data) ==
    IF DOMAIN data # ProfileFields THEN Raise
    ELSE IF /\ data.total_experience_years >= 0
            /\ data.hourly_rate >= 0
            /\ RLe(Zero, data.rating) /\ RLe(data.rating, RInt(5))
            /\ data.total_sessions >= 0
            /\ InUnit(data.success_rate)
            /\ data.max_participants >= 1
            /\ \A i \in DOMAIN data.skills :
                   /\ data.skills[i].level \in ExpertiseLevel
                   /\ data.skills[i].years_experience >= 0
            /\ \A i \in DOMAIN data.availability :
                   data.availability[i].day_of_week \in 0..6
            /\ Range(data.session_types) \subseteq SessionType
         THEN Ok(data)
         ELSE Raise

\* coach.dict() followed by json.dumps / json.loads: the profile's fields as
\* a plain document (enums become their string values, which they already are)
CoachDict(coach) == [f \in ProfileFields |-> coach[f]]

_map_experience_level(level_str) ==
    IF Lower(level_str) \in ExpertiseLevel THEN Lower(level_str) ELSE "intermediate"

MaxOf(S) == IF S = {} THEN 0 ELSE CHOOSE x \in S : \A y \in S : y <= x

_convert_api_coach_to_profile(coach_data) ==
    CoachProfile(
      [ coach_id |-> coach_data.id,
        skills |-> [i \in DOMAIN coach_data.expertise |->
                      Skill(coach_data.expertise[i].subcategory,
                            _map_experience_level(coach_data.expertise[i].level),
                            coach_data.expertise[i].yearsExperience)],
        total_experience_years |->
            MaxOf({coach_data.expertise[i].yearsExperience : i \in DOMAIN coach_data.expertise}),
        availability |-> [i \in DOMAIN coach_data.availability |->
                            Avail(coach_data.availability[i].dayOfWeek)],
        hourly_rate |-> coach_data.hourlyRate,
        rating |-> coach_data.metrics.averageRating,
        total_sessions |-> coach_data.metrics.totalSessions,
        success_rate |-> coach_data.metrics.successRate,
        languages |-> coach_data.languages,
        max_participants |-> 1,
        session_types |-> <<"one_on_one">>,
        is_active |-> TRUE,
        can_accept_new_clients |-> TRUE ])

RECURSIVE ConvertAll(_)
\* the loop of _fetch_coaches_from_api: an entry that fails to convert is
\* logged and left out
ConvertAll(coaches_data) ==
    IF coaches_data = <<>> THEN <<>>
    ELSE LET coach == _convert_api_coach_to_profile(Head(coaches_data))
         IN (IF coach.raised THEN <<>> ELSE <<Val(coach)>>) \o ConvertAll(Tail(coaches_data))

\* response: [kind, status_code, data]; kind is "response" (the GET came
\* back), "error" (connection error) or "timeout" (no answer in 10 s)
_fetch_coaches_from_api(response) ==
    IF response.kind = "response"
    THEN IF response.status_code = 200 THEN ConvertAll(response.data)
         ELSE _get_mock_coaches
    ELSE _get_mock_coaches

(***************************************************************************)
(* RedisService (redis_service.py).  Every method catches its own errors:  *)
(* with Redis unreachable a read returns nothing and a write is dropped.   *)
(***************************************************************************)
EmptyStore == << >>

STATS_KEEP == 1000
RESULT_TTL == 3600

\* set_coach_data(coach_id, coach_data, ttl=None): ttl is an Optional
set_coach_data(store, redis_up, coach_id, coach_data, ttl) ==
    LET used_ttl == IF Truthy(ttl) THEN ttl[1] ELSE COACH_DATA_TTL
    IN IF redis_up
       THEN (coach_id :> [data |-> coach_data, ttl |-> used_ttl]) @@ store
       ELSE store

\* get_all_coaches: the documents under the keys coach:*, in the order KEYS
\* lists them (key_order, unspecified by Redis)
get_all_coaches(store, redis_up, key_order) ==
    IF redis_up THEN [i \in DOMAIN key_order |-> store[key_order[i]].data]
    ELSE <<>>

\* cache_matching_result(request_id, result, ttl=3600)
cache_matching_result(store, redis_up, request_id, result) ==
    IF redis_up
    THEN (request_id :> [result |-> result, ttl |-> RESULT_TTL]) @@ store
    ELSE store

\* The sorted set processing_stats, lowest score first.  Members with the
\* same score stand in the order of their JSON text: "timestamp" first, then
\* total_coaches, matches_found, processing_time_ms (numbers of equal
\* length in digits here, so the text order is the numeric one).
MemberBefore(a, b) ==
    \/ a.timestamp < b.timestamp
    \/ /\ a.timestamp = b.timestamp
       /\ \/ a.total_coaches < b.total_coaches
          \/ /\ a.total_coaches = b.total_coaches
             /\ \/ a.matches_found < b.matches_found
                \/ /\ a.matches_found = b.matches_found
                   /\ a.processing_time_ms < b.processing_time_ms

\* ZADD key {member: score}: a member already held keeps its place (its
\* score is its own timestamp), a new one goes to its rank
ZAddAt(log, member, rank) ==
    SubSeq(log, 1, rank) \o <<member>> \o SubSeq(log, rank + 1, Len(log))

ZAdd(log, member) ==
    IF \E i \in DOMAIN log : log[i] = member THEN log
    ELSE ZAddAt(log, member, Cardinality({i \in DOMAIN log : MemberBefore(log[i], member)}))

\* ZREMRANGEBYRANK key 0 -1001: drops the ranks from the lowest up to the
\* 1001st from the top
ZRemRangeToKeep(log) ==
    IF Len(log) > STATS_KEEP THEN SubSeq(log, Len(log) - STATS_KEEP + 1, Len(log)) ELSE log

\* ZREMRANGEBYRANK with the range taken from the top: drops the highest
\* ranks beyond the first STATS_KEEP
ZRemRangeFromTop(log) ==
    IF Len(log) > STATS_KEEP THEN SubSeq(log, 1, STATS_KEEP) ELSE log

\* store_processing_stats trimming the wrong end of the sorted set
StoreStatsTrimmingNewest(log, redis_up, timestamp, stats) ==
    IF redis_up THEN ZRemRangeFromTop(ZAdd(log, [timestamp |-> timestamp] @@ stats))
    ELSE log

\* store_processing_stats: ZADD by timestamp, then ZREMRANGEBYRANK 0 -1001;
\* timestamp is what datetime.utcnow().timestamp() read
store_processing_stats(log, redis_up, timestamp, stats) ==
    IF redis_up THEN ZRemRangeToKeep(ZAdd(log, [timestamp |-> timestamp] @@ stats))
    ELSE log

(***************************************************************************)
(* Roster refresh (matching_service.py 116-161)                            *)
(***************************************************************************)
_should_refresh_coaches == last_coach_refresh # "recent"

RECURSIVE CacheAll(_, _, _)
\* the loop "for coach in self.coaches_cache: set_coach_data(...)"
CacheAll(store, redis_up, coaches) ==
    IF coaches = <<>> THEN store
    ELSE CacheAll(set_coach_data(store, redis_up, Head(coaches).coach_id,
                                 CoachDict(Head(coaches)), None),
                  redis_up, Tail(coaches))

UpstreamKind(response) ==
    IF response.kind = "response"
    THEN IF response.status_code = 200 THEN "ok" ELSE "bad_status"
    ELSE response.kind

\* the branch "if cached_coaches:" - adopt the cached roster, or land in the
\* except clause when an entry is no valid profile
AdoptCached(cached_coaches, parsed) ==
    IF \E i \in DOMAIN parsed : parsed[i].raised
    THEN [ coaches_cache |-> IF coaches_cache = <<>> THEN _get_mock_coaches
                             ELSE coaches_cache,
           last_coach_refresh |-> last_coach_refresh,
           redis_coaches |-> redis_coaches,
           log |-> [ ran |-> TRUE, cache_read |-> <<>>,
                     upstream |-> "not_contacted", writes |-> <<>>,
                     path |-> "except" ] ]
    ELSE [ coaches_cache |-> [i \in DOMAIN parsed |-> Val(parsed[i])],
           last_coach_refresh |-> "recent",
           redis_coaches |-> redis_coaches,
           log |-> [ ran |-> TRUE, cache_read |-> <<>>,
                     upstream |-> "not_contacted", writes |-> <<>>,
                     path |-> "cache" ] ]

\* the set_coach_data call issued for a coach, with the TTL it sets the key
\* with (what SETEX is given, whether or not Redis answers)
WriteIssued(coach) ==
    [ coach_id |-> coach.coach_id,
      ttl |-> set_coach_data(EmptyStore, TRUE, coach.coach_id, CoachDict(coach),
                             None)[coach.coach_id].ttl ]

\* the branch "else:" - fetch from the backend and cache every coach
AdoptFetched(redis_up, response, fetched) ==
    [ coaches_cache |-> fetched,
      last_coach_refresh |-> "recent",
      redis_coaches |-> CacheAll(redis_coaches, redis_up, fetched),
      log |-> [ ran |-> TRUE, cache_read |-> <<>>,
                upstream |-> UpstreamKind(response),
                writes |-> [i \in DOMAIN fetched |-> WriteIssued(fetched[i])],
                path |-> "upstream" ] ]

\* a refresh that goes to the backend whatever the cache returned
RefreshSkippingCache(redis_up, response, cached_coaches) ==
    AdoptFetched(redis_up, response, _fetch_coaches_from_api(response))

RefreshFrom(redis_up, response, cached_coaches) ==
    IF cached_coaches # <<>>
    THEN AdoptCached(cached_coaches,
                     [i \in DOMAIN cached_coaches |-> CoachProfile(cached_coaches[i])])
    ELSE AdoptFetched(redis_up, response, _fetch_coaches_from_api(response))

\* What _refresh_coach_data leaves behind, with a log of the collaborators
\* it called: cache_read (the list get_all_coaches returned, entered by
\* RefreshLogged once the branch taken has run), upstream
\* ("not_contacted" or the kind of answer), writes (the set_coach_data calls)
\* and path ("cache", "upstream" or "except").
RefreshLogged(refreshed, cached_coaches) ==
    [refreshed EXCEPT !.log.cache_read = cached_coaches]

RefreshWith(redis_up, response, cached_coaches) ==
    RefreshLogged(RefreshFrom(redis_up, response, cached_coaches), cached_coaches)

_refresh_coach_data(redis_up, key_order, response) ==
    RefreshWith(redis_up, response, get_all_coaches(redis_coaches, redis_up, key_order))

NoRefresh ==
    [ coaches_cache |-> coaches_cache,
      last_coach_refresh |-> last_coach_refresh,
      redis_coaches |-> redis_coaches,
      log |-> [ ran |-> FALSE, cache_read |-> <<>>, upstream |-> "not_contacted",
                writes |-> <<>>, path |-> "none" ] ]

\* the filter of line 123 without "and coach.can_accept_new_clients"
IsActiveOnly(coach) == coach.is_active

IsAvailable(coach) == coach.is_active /\ coach.can_accept_new_clients

\* _get_available_coaches: the refresh it may run, and the list it returns
AvailableOf(refreshed) ==
    [ refreshed |-> refreshed,
      coaches |-> SelectSeq(refreshed.coaches_cache, IsAvailable) ]

_get_available_coaches(redis_up, key_order, response) ==
    AvailableOf(IF _should_refresh_coaches
                THEN _refresh_coach_data(redis_up, key_order, response)
                ELSE NoRefresh)

(***************************************************************************)
(* find_matches (matching_service.py 61-114)                               *)
(***************************************************************************)
\* the scoring loop without the comparison against MIN_MATCH_SCORE
ScoreStepNoThreshold(match_results, match_result) ==
    IF ~match_result.raised THEN Append(match_results, Val(match_result))
    ELSE match_results

\* one iteration of the scoring loop, given what _calculate_match_score gave
ScoreStep(match_results, match_result) ==
    IF ~match_result.raised /\ RGe(Val(match_result).match_score, config.MIN_MATCH_SCORE)
    THEN Append(match_results, Val(match_result))
    ELSE match_results

\* what _calculate_match_score gives for each coach the loop visits
ScoreAttempts(filtered_coaches, request) ==
    [i \in DOMAIN filtered_coaches |-> _calculate_match_score(filtered_coaches[i], request)]

RECURSIVE ScoreLoop(_, _)
\* the scoring loop over those outcomes: a coach whose scoring raises is
\* logged and skipped, one below MIN_MATCH_SCORE is dropped
ScoreLoop(attempts, match_results) ==
    IF attempts = <<>> THEN match_results
    ELSE ScoreLoop(Tail(attempts), ScoreStep(match_results, Head(attempts)))

RECURSIVE InsertDesc(_, _)
InsertDesc(sorted, x) ==
    IF sorted = <<>> THEN <<x>>
    ELSE IF RGe(Head(sorted).match_score, x.match_score)
         THEN <<Head(sorted)>> \o InsertDesc(Tail(sorted), x)
         ELSE <<x>> \o sorted

RECURSIVE SortFrom(_, _)
SortFrom(sorted, rest) ==
    IF rest = <<>> THEN sorted ELSE SortFrom(InsertDesc(sorted, Head(rest)), Tail(rest))

\* find_matches without the sort of line 94
SortSkipped(match_results) == match_results

RECURSIVE InsertAheadOfTies(_, _)
InsertAheadOfTies(sorted, x) ==
    IF sorted = <<>> THEN <<x>>
    ELSE IF RGt(Head(sorted).match_score, x.match_score)
         THEN <<Head(sorted)>> \o InsertAheadOfTies(Tail(sorted), x)
         ELSE <<x>> \o sorted

RECURSIVE SortTiesReversedFrom(_, _)
SortTiesReversedFrom(sorted, rest) ==
    IF rest = <<>> THEN sorted
    ELSE SortTiesReversedFrom(InsertAheadOfTies(sorted, Head(rest)), Tail(rest))

\* a descending sort that is not stable: equal scores come out in reverse
\* input order (sorting ascending, then reversing the list)
SortTiesReversed(match_results) == SortTiesReversedFrom(<<>>, match_results)

\* list.sort(key=lambda x: x.match_score, reverse=True): stable
SortByScoreDesc(match_results) == SortFrom(<<>>, match_results)

\* the part of find_matches after the hard filters, given what they gave:
\* outcome ("returned" or "raised"), stage reached, the intermediate lists
\* (survivors, scoring outcomes, results above the threshold) and the
\* returned list (sorted, then cut to MAX_MATCHES_PER_REQUEST)
\* ranking that leaves out the coaches of the result cached for an earlier
\* request
RankedSkippingCached(filtered_coaches, attempts, match_results) ==
    [ outcome |-> "returned", stage |-> "ranked", filtered |-> filtered_coaches,
      attempts |-> attempts, scored |-> match_results,
      result |-> Take(SelectSeqBy(SortByScoreDesc(match_results),
                         {m \in Range(match_results) :
                             \A k \in DOMAIN redis_results :
                                \A i \in DOMAIN redis_results[k].result :
                                   redis_results[k].result[i].coach_id # m.coach.coach_id}),
                      config.MAX_MATCHES_PER_REQUEST) ]

Ranked(filtered_coaches, attempts, match_results) ==
    [ outcome |-> "returned", stage |-> "ranked", filtered |-> filtered_coaches,
      attempts |-> attempts, scored |-> match_results,
      result |-> Take(SortByScoreDesc(match_results), config.MAX_MATCHES_PER_REQUEST) ]

RankFiltered(request, filtered, attempts) ==
    IF filtered.raised
    THEN [ outcome |-> "raised", stage |-> "hard_filters", filtered |-> <<>>,
           attempts |-> <<>>, scored |-> <<>>, result |-> <<>> ]
    ELSE IF Val(filtered) = <<>>
    THEN [ outcome |-> "returned", stage |-> "no_survivors", filtered |-> <<>>,
           attempts |-> <<>>, scored |-> <<>>, result |-> <<>> ]
    ELSE Ranked(Val(filtered), attempts, ScoreLoop(attempts, <<>>))

ScoreFiltered(request, filtered) ==
    RankFiltered(request, filtered,
                 IF filtered.raised THEN <<>> ELSE ScoreAttempts(Val(filtered), request))

\* the part of find_matches after _get_available_coaches
Rank(coaches, request) ==
    IF coaches = <<>>
    THEN [ outcome |-> "returned", stage |-> "no_coaches", filtered |-> <<>>,
           attempts |-> <<>>, scored |-> <<>>, result |-> <<>> ]
    ELSE ScoreFiltered(request, _apply_hard_filters(coaches, request))

(***************************************************************************)
(* Bounded inputs                                                          *)
(***************************************************************************)
\* find_matches calls that reach the statistics step, per behaviour: a
\* behaviour is followed until its MaxCalls-th such call has returned
MaxCalls == 1
\* the processing times measured, in ms
ProcessingTimes == {15}

RawCoach(id, expertise, days, rate, rating, sessions, success, languages) ==
    [ id |-> id,
      expertise |-> expertise,
      availability |-> [i \in DOMAIN days |-> [dayOfWeek |-> days[i]]],
      hourlyRate |-> rate,
      metrics |-> [averageRating |-> rating, totalSessions |-> sessions,
                   successRate |-> success],
      languages |-> languages ]

Expertise(subcategory, level, years) ==
    [subcategory |-> subcategory, level |-> level, yearsExperience |-> years]

\* coaches in the backend's format
RawA1 == RawCoach("a1", <<Expertise("React", "Expert", 4)>>, <<1>>, 90,
                  Rat(46, 10), 30, Rat(9, 10), <<"English">>)
RawA2 == RawCoach("a2", <<Expertise("React", "beginner", 3)>>, <<2>>, 140,
                  Zero, 0, Zero, <<"English">>)
\* a negative rate: CoachProfile rejects it
RawBad == [RawA1 EXCEPT !.id = "bad", !.hourlyRate = -5]

\* what GET {BACKEND_API_URL}/coaches may answer
ApiResponses ==
    { [kind |-> "response", status_code |-> 200, data |-> <<RawA2, RawBad, RawA1>>],
      [kind |-> "response", status_code |-> 200, data |-> <<>>],
      [kind |-> "response", status_code |-> 503, data |-> <<>>],
      [kind |-> "error", status_code |-> 0, data |-> <<>>],
      [kind |-> "timeout", status_code |-> 0, data |-> <<>>] }

\* documents another writer (the backend's sync) may have left under coach:*
ExternalDocs ==
    LET c == _get_mock_coaches[1]
    IN ( "x2" :> [data |-> CoachDict([c EXCEPT !.coach_id = "x2",
                                               !.can_accept_new_clients = FALSE]),
                  ttl |-> COACH_DATA_TTL] )
       @@ ( "x3" :> [data |-> CoachDict([c EXCEPT !.coach_id = "x3"]),
                     ttl |-> COACH_DATA_TTL] )

\* a document without the fields of a profile ({} after .get('data', {}))
JunkDocs == ( "junk" :> [data |-> <<>>, ttl |-> COACH_DATA_TTL] )

Requirement(name, level, weight, mandatory) ==
    [name |-> name, level |-> level, weight |-> weight, mandatory |-> mandatory]

Request(session_type, skills_required, experience_level, max_hourly_rate, languages, participants_count) ==
    [ request_id |-> "req_1",
      session_type |-> session_type,
      skills_required |-> skills_required,
      experience_level |-> experience_level,
      budget_constraints |-> [max_hourly_rate |-> max_hourly_rate],
      availability_requirements |-> [days_of_week |-> <<1, 2>>, flexibility |-> Half],
      preferred_languages |-> languages,
      participants_count |-> participants_count ]

\* the requests the service is driven with
Requests ==
    { Request("one_on_one", <<>>, "intermediate", None, <<"English">>, 1),
      Request("one_on_one", <<Requirement("react", "expert", One, TRUE)>>, "master",
              Some(150), <<"English">>, 1),
      Request("group", <<>>, "expert", Some(0), <<"Mandarin", "English">>, 6) }

(***************************************************************************)
(* Initial state: MatchingService.__init__ in a process whose environment  *)
(* gave `config`, against a Redis that holds `redis_coaches`.              *)
(***************************************************************************)
\* no handler has run yet
NoReply ==
    [ handler |-> "none", data |-> <<>>, valid |-> FALSE, invoked |-> FALSE,
      returned |-> FALSE, elapsed |-> 0, processing_time_ms |-> 0, kafka_up |-> TRUE,
      answer |-> "none", status |-> 0, sent |-> <<>>, raised |-> FALSE, run |-> 0 ]

\* KafkaService.__init__ (self.is_running = False) and the consumer thread
\* create_app starts: about to enter start_consumer
ConsumerCreated ==
    [ pc |-> "start", is_running |-> FALSE, stop_requested |-> FALSE,
      closed |-> FALSE, last |-> "none" ]

NoCall ==
    [ op |-> "none", request |-> <<>>, redis_up |-> TRUE, roster_before |-> <<>>,
      refresh |-> [ ran |-> FALSE, cache_read |-> <<>>, upstream |-> "not_contacted",
                    writes |-> <<>>, path |-> "none" ],
      coaches |-> <<>>, outcome |-> "returned",
      stage |-> "none", filtered |-> <<>>, attempts |-> <<>>, scored |-> <<>>,
      result |-> <<>> ]

\* the starts explored: the environment's configuration, the coaches whose
\* nested entries raise on item access, and what Redis holds
Scenario(cfg, faulty, docs) == [config |-> cfg, itemFault |-> faulty, redis_coaches |-> docs]

Scenarios ==
    { Scenario(DefaultConfig, {}, EmptyStore),
      Scenario(SmallPageConfig, {}, EmptyStore),
      Scenario(NegativeWeightConfig, {}, EmptyStore),
      Scenario(ZeroWeightConfig, {}, EmptyStore),
      Scenario(DefaultConfig, {"a1", "coach_1"}, EmptyStore),
      Scenario(DefaultConfig, {}, ExternalDocs),
      Scenario(DefaultConfig, {}, JunkDocs) }

Init ==
    /\ \E s \in Scenarios :
          /\ config = s.config
          /\ itemFault = s.itemFault
          /\ redis_coaches = s.redis_coaches
    /\ weights = get_matching_weights(config)
    /\ coaches_cache = <<>>
    /\ last_coach_refresh = "min"
    /\ redis_results = EmptyStore
    /\ redis_stats = <<>>
    /\ total_requests_processed = 0
    /\ total_matches_generated = 0
    /\ average_processing_time = Zero
    /\ last_processing_time = 0
    /\ call = NoCall
    /\ threads = NoThreads
    /\ roster_version = 0
    /\ reply = NoReply
    /\ published = <<>>
    /\ consumer = ConsumerCreated

(***************************************************************************)
(* Actions                                                                 *)
(***************************************************************************)
\* _update_statistics, as the new values of the counters and of the log
\* _update_statistics with the mean taken between the old value and the
\* new time, whatever the number of calls
UpdateStatisticsHalving(redis_up, total_coaches, matches_found, processing_time) ==
    [ total_requests_processed |-> total_requests_processed + 1,
      total_matches_generated |-> total_matches_generated + matches_found,
      average_processing_time |->
          IF total_requests_processed = 0 THEN RInt(processing_time)
          ELSE RDiv(RAdd(average_processing_time, RInt(processing_time)), RInt(2)),
      redis_stats |-> store_processing_stats(redis_stats, redis_up,
                          total_requests_processed + 1,
                          [ total_coaches |-> total_coaches,
                            matches_found |-> matches_found,
                            processing_time_ms |-> processing_time ]) ]

\* _update_statistics with the counters updated only once the sample is
\* stored: a store that cannot be reached leaves them as they were
UpdateStatisticsAfterStore(redis_up, total_coaches, matches_found, processing_time) ==
    IF redis_up
    THEN [ total_requests_processed |-> total_requests_processed + 1,
           total_matches_generated |-> total_matches_generated + matches_found,
           average_processing_time |->
               RDiv(RAdd(RMul(average_processing_time, RInt(total_requests_processed)),
                         RInt(processing_time)),
                    RInt(total_requests_processed + 1)),
           redis_stats |-> store_processing_stats(redis_stats, redis_up,
                               total_requests_processed + 1,
                               [ total_coaches |-> total_coaches,
                                 matches_found |-> matches_found,
                                 processing_time_ms |-> processing_time ]) ]
    ELSE [ total_requests_processed |-> total_requests_processed,
           total_matches_generated |-> total_matches_generated,
           average_processing_time |-> average_processing_time,
           redis_stats |-> redis_stats ]

_update_statistics(redis_up, total_coaches, matches_found, processing_time) ==
    LET n == total_requests_processed + 1
    IN [ total_requests_processed |-> n,
         total_matches_generated |-> total_matches_generated + matches_found,
         average_processing_time |->
             RDiv(RAdd(RMul(average_processing_time, RInt(n - 1)), RInt(processing_time)),
                  RInt(n)),
         redis_stats |-> store_processing_stats(redis_stats, redis_up, n,
                             [ total_coaches |-> total_coaches,
                               matches_found |-> matches_found,
                               processing_time_ms |-> processing_time ]) ]

\* _cache_results: the document stored under match_result:<request_id>
_cache_results(redis_up, request_id, results) ==
    cache_matching_result(redis_results, redis_up, request_id,
        [i \in DOMAIN results |-> [coach_id |-> results[i].coach.coach_id,
                                    match_score |-> results[i].match_score]])

FindMatchesStep(request, redis_up, processing_time, got, ranked, stats) ==
    /\ coaches_cache' = got.refreshed.coaches_cache
    /\ last_coach_refresh' = got.refreshed.last_coach_refresh
    /\ redis_coaches' = got.refreshed.redis_coaches
    /\ call' = [ op |-> "find_matches", request |-> request, redis_up |-> redis_up,
                 roster_before |-> coaches_cache, refresh |-> got.refreshed.log,
                 coaches |-> got.coaches, outcome |-> ranked.outcome,
                 stage |-> ranked.stage, filtered |-> ranked.filtered,
                 attempts |-> ranked.attempts, scored |-> ranked.scored,
                 result |-> ranked.result ]
    /\ IF ranked.stage = "ranked"
       THEN /\ last_processing_time' = processing_time
            /\ total_requests_processed' = stats.total_requests_processed
            /\ total_matches_generated' = stats.total_matches_generated
            /\ average_processing_time' = stats.average_processing_time
            /\ redis_stats' = stats.redis_stats
            /\ redis_results' = _cache_results(redis_up, request.request_id, ranked.result)
       ELSE UNCHANGED <<last_processing_time, total_requests_processed,
                        total_matches_generated, average_processing_time,
                        redis_stats, redis_results>>
    /\ UNCHANGED <<threads, roster_version, config, itemFault, weights>>

FindMatchesRanked(request, redis_up, processing_time, got, ranked) ==
    FindMatchesStep(request, redis_up, processing_time, got, ranked,
                    _update_statistics(redis_up, Len(got.coaches), Len(ranked.result),
                                       processing_time))

FindMatchesWith(request, redis_up, processing_time, got) ==
    FindMatchesRanked(request, redis_up, processing_time, got, Rank(got.coaches, request))

\* MatchingService.find_matches(request), with what the environment does
\* during the call: Redis reachable or not, the order KEYS lists the coach
\* keys in, the backend's answer, the time measured.
FindMatches(request, redis_up, key_order, response, processing_time) ==
    /\ FindMatchesWith(request, redis_up, processing_time,
                       _get_available_coaches(redis_up, key_order, response))
    /\ UNCHANGED apiVars

\* MatchingService.get_all_coaches (GET /api/coaches): the same lazy refresh,
\* no matching
GetAllCoachesWith(redis_up, got) ==
    /\ coaches_cache' = got.refreshed.coaches_cache
    /\ last_coach_refresh' = got.refreshed.last_coach_refresh
    /\ redis_coaches' = got.refreshed.redis_coaches
    /\ call' = [NoCall EXCEPT !.op = "get_all_coaches", !.redis_up = redis_up,
                              !.roster_before = coaches_cache,
                              !.refresh = got.refreshed.log,
                              !.coaches = got.coaches]
    /\ UNCHANGED <<threads, roster_version, apiVars, config, itemFault, weights, redis_results, redis_stats,
                   total_requests_processed, total_matches_generated,
                   average_processing_time, last_processing_time>>

GetAllCoaches(redis_up, key_order, response) ==
    GetAllCoachesWith(redis_up, _get_available_coaches(redis_up, key_order, response))

\* more than REFRESH_COACH_DATA_INTERVAL seconds pass since the last refresh
RefreshIntervalElapses ==
    /\ last_coach_refresh = "recent"
    /\ last_coach_refresh' = "old"
    /\ call' = NoCall
    /\ UNCHANGED <<threads, roster_version, apiVars, config, itemFault, weights, coaches_cache, redis_coaches,
                   redis_results, redis_stats, total_requests_processed,
                   total_matches_generated, average_processing_time,
                   last_processing_time>>

\* Redis drops a coach key whose TTL ran out
CoachKeyExpires(coach_id) ==
    /\ coach_id \in DOMAIN redis_coaches
    /\ redis_coaches' = [k \in DOMAIN redis_coaches \ {coach_id} |-> redis_coaches[k]]
    /\ call' = NoCall
    /\ UNCHANGED <<threads, roster_version, apiVars, config, itemFault, weights, coaches_cache, last_coach_refresh,
                   redis_results, redis_stats, total_requests_processed,
                   total_matches_generated, average_processing_time,
                   last_processing_time>>

\* What the environment is asked during a call.  The key order is read only
\* by a refresh that reaches Redis; the backend is contacted only by a
\* refresh that got nothing from the cache.
KeyOrders(redis_up) ==
    IF _should_refresh_coaches /\ redis_up THEN Perms(DOMAIN redis_coaches) ELSE {<<>>}

NotAsked == [kind |-> "none", status_code |-> 0, data |-> <<>>]

Responses(redis_up) ==
    IF _should_refresh_coaches /\ (~redis_up \/ DOMAIN redis_coaches = {})
    THEN ApiResponses ELSE {NotAsked}

Next ==
    /\ total_requests_processed < MaxCalls
    /\ \/ \E request \in Requests, redis_up \in BOOLEAN :
            \E key_order \in KeyOrders(redis_up), response \in Responses(redis_up),
               processing_time \in ProcessingTimes :
                 FindMatches(request, redis_up, key_order, response, processing_time)
       \/ \E redis_up \in BOOLEAN :
            \E key_order \in KeyOrders(redis_up), response \in Responses(redis_up) :
                 GetAllCoaches(redis_up, key_order, response)
       \/ RefreshIntervalElapses
       \/ \E coach_id \in DOMAIN redis_coaches : CoachKeyExpires(coach_id)

Spec == Init /\ [][Next]_vars

(***************************************************************************)
(* Ranking on a fresh roster: the service holds a roster it fetched from   *)
(* the backend while Redis was unreachable (nothing cached), the refresh   *)
(* interval has not elapsed, and find_matches is called repeatedly.        *)
(***************************************************************************)
\* find_matches calls that reach the statistics step, per behaviour
MaxRankCalls == 2

\* scores exactly as a1 does
RawA3 == [RawA1 EXCEPT !.id = "a3"]

\* the rosters the backend's answer may have produced: a1, a2 and a3 in any order
RankRosters == {ConvertAll(data) : data \in Perms({RawA1, RawA2, RawA3})}

\* one_on_one requests without a budget ceiling, by required skills and level
SkillRequest(skills_required, experience_level) ==
    Request("one_on_one", skills_required, experience_level, None, <<"English">>, 1)

RankRequests ==
    Requests \cup
    { SkillRequest(<<Requirement("React", "expert", One, TRUE),
                     Requirement("Agile", "expert", Half, TRUE)>>, "intermediate"),
      SkillRequest(<<Requirement("React", "intermediate", One, FALSE),
                     Requirement("Agile", "beginner", Zero, TRUE)>>, "intermediate"),
      SkillRequest(<<Requirement("Agile", "expert", One, TRUE),
                     Requirement("Node.js", "master", Rat(1, 5), TRUE)>>, "beginner"),
      SkillRequest(<<Requirement("Agile", "expert", Zero, TRUE)>>, "intermediate") }

RankConfigs == {DefaultConfig, SmallPageConfig}

InitRank ==
    /\ config \in RankConfigs
    /\ itemFault = {}
    /\ weights = get_matching_weights(config)
    /\ coaches_cache \in RankRosters
    /\ last_coach_refresh = "recent"
    /\ redis_coaches = EmptyStore
    /\ redis_results = EmptyStore
    /\ redis_stats = <<>>
    /\ total_requests_processed = 0
    /\ total_matches_generated = 0
    /\ average_processing_time = Zero
    /\ last_processing_time = 0
    /\ call = NoCall
    /\ threads = NoThreads
    /\ roster_version = 0
    /\ reply = NoReply
    /\ published = <<>>
    /\ consumer = ConsumerCreated

NextRank ==
    /\ total_requests_processed < MaxRankCalls
    /\ \E request \in RankRequests, redis_up \in BOOLEAN, processing_time \in ProcessingTimes :
          FindMatches(request, redis_up, <<>>, NotAsked, processing_time)

SpecRank == InitRank /\ [][NextRank]_vars

(***************************************************************************)
(* The statistics log: RedisService.store_processing_stats called against  *)
(* a Redis whose processing_stats set already holds samples of earlier     *)
(* operation, with the wall clock read at each call.                       *)
(***************************************************************************)
\* a sample as _update_statistics hands it over
Stats(total_coaches, matches_found) ==
    [total_coaches |-> total_coaches, matches_found |-> matches_found, processing_time_ms |-> 15]

StatsSamples == {Stats(2, 0), Stats(2, 2)}

\* the samples held at the start: none, or one per second 1 .. held
StatsHeld == {0, STATS_KEEP - 1, STATS_KEEP}

HeldLog(held) == [i \in 1..held |-> [timestamp |-> i] @@ Stats(2, 1)]

\* readings of datetime.utcnow(): later than every held sample, or earlier
\* (the wall clock was set back)
ClockReadings == {0, STATS_KEEP + 1, STATS_KEEP + 2}

InitStats ==
    /\ config = DefaultConfig
    /\ itemFault = {}
    /\ weights = get_matching_weights(config)
    /\ coaches_cache = <<>>
    /\ last_coach_refresh = "never"
    /\ redis_coaches = EmptyStore
    /\ redis_results = EmptyStore
    /\ \E held \in StatsHeld : redis_stats = HeldLog(held)
    /\ total_requests_processed = 0
    /\ total_matches_generated = 0
    /\ average_processing_time = Zero
    /\ last_processing_time = 0
    /\ call = NoCall
    /\ threads = NoThreads
    /\ roster_version = 0
    /\ reply = NoReply
    /\ published = <<>>
    /\ consumer = ConsumerCreated

\* RedisService.store_processing_stats(stats); call.request keeps the
\* argument and the clock reading
StoreProcessingStats(stats, redis_up, timestamp) ==
    /\ redis_stats' = store_processing_stats(redis_stats, redis_up, timestamp, stats)
    /\ call' = [NoCall EXCEPT !.op = "store_processing_stats", !.redis_up = redis_up,
                              !.request = [timestamp |-> timestamp] @@ stats]
    /\ UNCHANGED <<threads, roster_version, apiVars, config, itemFault, weights, coaches_cache, last_coach_refresh,
                   redis_coaches, redis_results, total_requests_processed,
                   total_matches_generated, average_processing_time,
                   last_processing_time>>

NextStats ==
    \E stats \in StatsSamples, redis_up \in BOOLEAN, timestamp \in ClockReadings :
       StoreProcessingStats(stats, redis_up, timestamp)

SpecStats == InitStats /\ [][NextStats]_vars

(***************************************************************************)
(* Concurrent calls: create_app builds one MatchingService; the Flask      *)
(* request threads (POST /api/match) and the Kafka consumer thread         *)
(* (app.py 134-150) call find_matches on it with no lock.  A step is what  *)
(* a thread does between two points where another thread may run: each    *)
(* load and each store of an attribute of the service, each call to Redis  *)
(* or to the backend.                                                      *)
(***************************************************************************)
\* the roster held when the threads start
ThreadRoster == ConvertAll(<<RawA1, RawA3>>)

ThreadRequests == {Request("one_on_one", <<>>, "intermediate", None, <<"English">>, 1)}

\* Redis is unreachable throughout: every refresh goes to the backend, which
\* answers with a roster or not in time (the sample roster is bound then)
ThreadRedis == {FALSE}

ThreadResponses ==
    { [kind |-> "response", status_code |-> 200, data |-> <<RawA2, RawBad, RawA1>>],
      [kind |-> "timeout", status_code |-> 0, data |-> <<>>] }

ThreadKeyOrders(redis_up) == IF redis_up THEN Perms(DOMAIN redis_coaches) ELSE {<<>>}

ThreadResponsesFor(redis_up) ==
    IF ~redis_up \/ DOMAIN redis_coaches = {} THEN ThreadResponses ELSE {NotAsked}

\* the stores to self.coaches_cache with the list object in the course of
\* being filled: cleared, then one coach appended at a time
RosterWritesInPlace(new_roster) ==
    <<[coaches |-> <<>>, fresh |-> FALSE]>>
       \o [i \in DOMAIN new_roster |-> [coaches |-> Take(new_roster, i), fresh |-> FALSE]]

\* "self.coaches_cache = <list>": one store that binds the attribute to a
\* list object built beforehand
RosterWrites(new_roster) == <<[coaches |-> new_roster, fresh |-> TRUE]>>

\* what the list object a thread iterates holds now: the object bound to
\* self.coaches_cache if that is still the one the thread loaded
View(t) ==
    IF threads[t].version = roster_version THEN coaches_cache ELSE threads[t].snapshot

\* datetime.utcnow() read later than at every sample stored so far
ThreadClock ==
    IF redis_stats = <<>> THEN 1 ELSE redis_stats[Len(redis_stats)].timestamp + 1

InitThreads ==
    /\ config = DefaultConfig
    /\ itemFault = {}
    /\ weights = get_matching_weights(config)
    /\ coaches_cache = ThreadRoster
    /\ last_coach_refresh \in {"recent", "old"}
    /\ redis_coaches = EmptyStore
    /\ redis_results = EmptyStore
    /\ redis_stats = <<>>
    /\ total_requests_processed = 0
    /\ total_matches_generated = 0
    /\ average_processing_time = Zero
    /\ last_processing_time = 0
    /\ call = NoCall
    /\ threads = NoThreads
    /\ roster_version = 0
    /\ reply = NoReply
    /\ published = <<>>
    /\ consumer = ConsumerCreated

\* find_matches is entered; _should_refresh_coaches reads last_coach_refresh
Begin(t, request, redis_up) ==
    /\ threads[t].pc = "idle"
    /\ threads' = [threads EXCEPT ![t] =
          [IdleThread EXCEPT !.pc = IF _should_refresh_coaches THEN "refresh" ELSE "load",
                             !.request = request, !.redis_up = redis_up]]
    /\ UNCHANGED <<roster_version, apiVars, config, itemFault, weights, coaches_cache,
                   last_coach_refresh, redis_coaches, redis_results, redis_stats,
                   total_requests_processed, total_matches_generated,
                   average_processing_time, last_processing_time, call>>

\* the list the refresh will bind, if it binds one (the except branch
\* leaves a non-empty roster alone)
RefreshPlanned(t, refreshed, assigns) ==
    [threads EXCEPT ![t].pc = "publish",
                    ![t].path = refreshed.log.path,
                    ![t].built = IF assigns THEN Some(refreshed.coaches_cache) ELSE None,
                    ![t].pending = IF assigns THEN RosterWrites(refreshed.coaches_cache)
                                   ELSE <<>>]

\* _refresh_coach_data up to the store to self.coaches_cache: the read of
\* Redis, the call to the backend, the list built from the answer
RefreshRead(t, key_order, response) ==
    /\ threads[t].pc = "refresh"
    /\ threads' = RefreshPlanned(t,
                      _refresh_coach_data(threads[t].redis_up, key_order, response),
                      ~( _refresh_coach_data(threads[t].redis_up, key_order,
                                             response).log.path = "except"
                         /\ coaches_cache # <<>> ))
    /\ UNCHANGED <<roster_version, apiVars, config, itemFault, weights, coaches_cache,
                   last_coach_refresh, redis_coaches, redis_results, redis_stats,
                   total_requests_processed, total_matches_generated,
                   average_processing_time, last_processing_time, call>>

\* a store to self.coaches_cache
Publish(t) ==
    /\ threads[t].pc = "publish"
    /\ threads[t].pending # <<>>
    /\ coaches_cache' = Head(threads[t].pending).coaches
    /\ roster_version' = IF Head(threads[t].pending).fresh THEN roster_version + 1
                         ELSE roster_version
    /\ threads' = [threads EXCEPT ![t].pending = Tail(@)]
    /\ UNCHANGED <<apiVars, config, itemFault, weights, last_coach_refresh, redis_coaches,
                   redis_results, redis_stats, total_requests_processed,
                   total_matches_generated, average_processing_time,
                   last_processing_time, call>>

\* the rest of _refresh_coach_data: set_coach_data for every coach of
\* self.coaches_cache (upstream branch), then last_coach_refresh
RefreshEnd(t) ==
    /\ threads[t].pc = "publish"
    /\ threads[t].pending = <<>>
    /\ redis_coaches' = IF threads[t].path = "upstream"
                        THEN CacheAll(redis_coaches, threads[t].redis_up, coaches_cache)
                        ELSE redis_coaches
    /\ last_coach_refresh' = IF threads[t].path = "except" THEN last_coach_refresh
                             ELSE "recent"
    /\ threads' = [threads EXCEPT ![t].pc = "load"]
    /\ UNCHANGED <<roster_version, apiVars, config, itemFault, weights, coaches_cache,
                   redis_results, redis_stats, total_requests_processed,
                   total_matches_generated, average_processing_time,
                   last_processing_time, call>>

\* line 123: the comprehension loads self.coaches_cache and starts to iterate
LoadRoster(t) ==
    /\ threads[t].pc = "load"
    /\ threads' = [threads EXCEPT ![t].pc = "iterate",
                                  ![t].version = roster_version,
                                  ![t].snapshot = coaches_cache,
                                  ![t].index = 1,
                                  ![t].coaches = <<>>]
    /\ UNCHANGED <<roster_version, apiVars, config, itemFault, weights, coaches_cache,
                   last_coach_refresh, redis_coaches, redis_results, redis_stats,
                   total_requests_processed, total_matches_generated,
                   average_processing_time, last_processing_time, call>>

\* one turn of the comprehension: the next coach of the list object
Iterate(t) ==
    /\ threads[t].pc = "iterate"
    /\ threads[t].index <= Len(View(t))
    /\ threads' = [threads EXCEPT
          ![t].coaches = IF IsAvailable(View(t)[threads[t].index])
                         THEN Append(@, View(t)[threads[t].index]) ELSE @,
          ![t].index = @ + 1]
    /\ UNCHANGED <<roster_version, apiVars, config, itemFault, weights, coaches_cache,
                   last_coach_refresh, redis_coaches, redis_results, redis_stats,
                   total_requests_processed, total_matches_generated,
                   average_processing_time, last_processing_time, call>>

RankedInThread(t, ranked, processing_time) ==
    /\ threads' = [threads EXCEPT
          ![t].pc = IF ranked.stage = "ranked" THEN "read_requests" ELSE "done",
          ![t].counted = ranked.stage = "ranked",
          ![t].version = 0,
          ![t].index = 0,
          ![t].matches_found = Len(ranked.result)]
    /\ last_processing_time' = IF ranked.stage = "ranked" THEN processing_time
                               ELSE last_processing_time

\* the list is exhausted: hard filters, scoring, sort and limit on the
\* thread's own lists, up to "self.last_processing_time = processing_time"
RankInThread(t, processing_time) ==
    /\ threads[t].pc = "iterate"
    /\ threads[t].index > Len(View(t))
    /\ RankedInThread(t, Rank(threads[t].coaches, threads[t].request), processing_time)
    /\ UNCHANGED <<roster_version, apiVars, config, itemFault, weights, coaches_cache,
                   last_coach_refresh, redis_coaches, redis_results, redis_stats,
                   total_requests_processed, total_matches_generated,
                   average_processing_time, call>>

\* "self.total_requests_processed += 1": the load ...
ReadRequests(t) ==
    /\ threads[t].pc = "read_requests"
    /\ threads' = [threads EXCEPT ![t].pc = "write_requests",
                                  ![t].read = total_requests_processed]
    /\ UNCHANGED <<roster_version, apiVars, config, itemFault, weights, coaches_cache,
                   last_coach_refresh, redis_coaches, redis_results, redis_stats,
                   total_requests_processed, total_matches_generated,
                   average_processing_time, last_processing_time, call>>

\* ... and the store
WriteRequests(t) ==
    /\ threads[t].pc = "write_requests"
    /\ total_requests_processed' = threads[t].read + 1
    /\ threads' = [threads EXCEPT ![t].pc = "read_matches", ![t].read = 0]
    /\ UNCHANGED <<roster_version, apiVars, config, itemFault, weights, coaches_cache,
                   last_coach_refresh, redis_coaches, redis_results, redis_stats,
                   total_matches_generated, average_processing_time,
                   last_processing_time, call>>

\* "self.total_matches_generated += matches_found": the load ...
ReadMatches(t) ==
    /\ threads[t].pc = "read_matches"
    /\ threads' = [threads EXCEPT ![t].pc = "write_matches",
                                  ![t].read = total_matches_generated]
    /\ UNCHANGED <<roster_version, apiVars, config, itemFault, weights, coaches_cache,
                   last_coach_refresh, redis_coaches, redis_results, redis_stats,
                   total_requests_processed, total_matches_generated,
                   average_processing_time, last_processing_time, call>>

\* ... and the store
WriteMatches(t) ==
    /\ threads[t].pc = "write_matches"
    /\ total_matches_generated' = threads[t].read + threads[t].matches_found
    /\ threads' = [threads EXCEPT ![t].pc = "finish", ![t].read = 0]
    /\ UNCHANGED <<roster_version, apiVars, config, itemFault, weights, coaches_cache,
                   last_coach_refresh, redis_coaches, redis_results, redis_stats,
                   total_requests_processed, average_processing_time,
                   last_processing_time, call>>

\* the rest of the call: the running mean, store_processing_stats and
\* _cache_results
FinishCall(t, processing_time) ==
    /\ threads[t].pc = "finish"
    /\ average_processing_time' =
          RDiv(RAdd(RMul(average_processing_time, RInt(total_requests_processed - 1)),
                    RInt(processing_time)),
               RInt(total_requests_processed))
    /\ redis_stats' = store_processing_stats(redis_stats, threads[t].redis_up, ThreadClock,
                          [ total_coaches |-> Len(threads[t].coaches),
                            matches_found |-> threads[t].matches_found,
                            processing_time_ms |-> processing_time ])
    /\ redis_results' = _cache_results(threads[t].redis_up, threads[t].request.request_id,
                                       Rank(threads[t].coaches, threads[t].request).result)
    /\ threads' = [threads EXCEPT ![t].pc = "done"]
    /\ UNCHANGED <<roster_version, apiVars, config, itemFault, weights, coaches_cache,
                   last_coach_refresh, redis_coaches, total_requests_processed,
                   total_matches_generated, last_processing_time, call>>

NextThreads ==
    \E t \in Threads :
          \/ \E request \in ThreadRequests, redis_up \in ThreadRedis : Begin(t, request, redis_up)
          \/ \E key_order \in ThreadKeyOrders(threads[t].redis_up),
                response \in ThreadResponsesFor(threads[t].redis_up) :
                   RefreshRead(t, key_order, response)
          \/ Publish(t)
          \/ RefreshEnd(t)
          \/ LoadRoster(t)
          \/ Iterate(t)
          \/ \E processing_time \in ProcessingTimes : RankInThread(t, processing_time)
          \/ ReadRequests(t)
          \/ WriteRequests(t)
          \/ ReadMatches(t)
          \/ WriteMatches(t)
          \/ \E processing_time \in ProcessingTimes : FinishCall(t, processing_time)

SpecThreads == InitThreads /\ [][NextThreads]_vars

(***************************************************************************)
(* The running mean: calls of differing duration on a fixed roster, some   *)
(* answered before the statistics step.                                    *)
(***************************************************************************)
\* find_matches calls that reach the statistics step, per behaviour
MaxMeanCalls == 3

\* the processing times measured, in ms
MeanTimes == {10, 25, 40}

\* a request two coaches of ThreadRoster are ranked for, and one nobody
\* survives
MeanRequests ==
    { Request("one_on_one", <<>>, "intermediate", None, <<"English">>, 1),
      Request("group", <<>>, "expert", None, <<"English">>, 6) }

InitMean ==
    /\ config = DefaultConfig
    /\ itemFault = {}
    /\ weights = get_matching_weights(config)
    /\ coaches_cache = ThreadRoster
    /\ last_coach_refresh = "recent"
    /\ redis_coaches = EmptyStore
    /\ redis_results = EmptyStore
    /\ redis_stats = <<>>
    /\ total_requests_processed = 0
    /\ total_matches_generated = 0
    /\ average_processing_time = Zero
    /\ last_processing_time = 0
    /\ call = NoCall
    /\ threads = NoThreads
    /\ roster_version = 0
    /\ reply = NoReply
    /\ published = <<>>
    /\ consumer = ConsumerCreated

NextMean ==
    /\ total_requests_processed < MaxMeanCalls
    /\ \E request \in MeanRequests, redis_up \in BOOLEAN, processing_time \in MeanTimes :
          FindMatches(request, redis_up, <<>>, NotAsked, processing_time)

SpecMean == InitMean /\ [][NextMean]_vars

(***************************************************************************)
(* The HTTP and Kafka front (app.py, kafka_service.py): the two handlers   *)
(* that validate a document, call find_matches and answer, and the         *)
(* consumer thread that feeds one of them.  The service holds a fresh      *)
(* roster.                                                                 *)
(***************************************************************************)
MaxHandled == 2

\* the fields declared with Field(...) (no default)
RequestRequired ==
    { "request_id", "company_id", "program_id", "title", "description", "session_type",
      "skills_required", "experience_level", "budget_constraints",
      "availability_requirements" }
SkillRequired == {"name", "level"}
AvailabilityRequired == {"days_of_week", "time_slots"}
ResponseRequired ==
    { "request_id", "matches", "total_coaches_evaluated", "processing_time_ms",
      "algorithm_version", "average_match_score", "best_match_score" }

\* data.get(field, default) / a field with a default
FieldOr(data, field, default) == IF field \in DOMAIN data THEN data[field] ELSE default

\* SkillRequirement(**entry): name and level required, level an
\* ExpertiseLevel, weight (default 1.0) within [0, 1]
SkillRequirement(entry) ==
    IF SkillRequired \ DOMAIN entry # {} THEN Raise
    ELSE IF entry.level \notin ExpertiseLevel THEN Raise
    ELSE IF ~InUnit(FieldOr(entry, "weight", One)) THEN Raise
    ELSE Ok([ name |-> entry.name, level |-> entry.level,
              weight |-> FieldOr(entry, "weight", One),
              mandatory |-> FieldOr(entry, "mandatory", FALSE) ])

\* BudgetConstraint(**entry): max_hourly_rate optional, ge=0
BudgetConstraint(entry) ==
    IF "max_hourly_rate" \in DOMAIN entry /\ entry.max_hourly_rate < 0 THEN Raise
    ELSE Ok([ max_hourly_rate |-> IF "max_hourly_rate" \in DOMAIN entry
                                  THEN Some(entry.max_hourly_rate) ELSE None ])

\* the validator of days_of_week: every day within 0..6
validate_days_of_week(v) == \A i \in DOMAIN v : 0 <= v[i] /\ v[i] <= 6

\* AvailabilityRequirement(**entry): days_of_week and time_slots required,
\* the days validated, flexibility (default 0.5) within [0, 1]
AvailabilityRequirement(entry) ==
    IF AvailabilityRequired \ DOMAIN entry # {} THEN Raise
    ELSE IF ~validate_days_of_week(entry.days_of_week) THEN Raise
    ELSE IF ~InUnit(FieldOr(entry, "flexibility", Half)) THEN Raise
    ELSE Ok([ days_of_week |-> entry.days_of_week,
              flexibility |-> FieldOr(entry, "flexibility", Half) ])

\* the model built once every field validated
RequestFrom(data, skills, budget, availability) ==
    IF (\E i \in DOMAIN skills : skills[i].raised) \/ budget.raised \/ availability.raised
    THEN Raise
    ELSE Ok([ request_id |-> data.request_id,
              session_type |-> data.session_type,
              skills_required |-> [i \in DOMAIN skills |-> Val(skills[i])],
              experience_level |-> data.experience_level,
              budget_constraints |-> Val(budget),
              availability_requirements |-> Val(availability),
              preferred_languages |-> FieldOr(data, "preferred_languages", <<"English">>),
              participants_count |-> FieldOr(data, "participants_count", 1) ])

\* MatchingRequest taking a document that lacks required fields or holds
\* values out of range, the missing ones filled with neutral values
MatchingRequestUnchecked(data) ==
    Ok([ request_id |-> FieldOr(data, "request_id", "unknown"),
         session_type |-> FieldOr(data, "session_type", "one_on_one"),
         skills_required |-> <<>>,
         experience_level |-> FieldOr(data, "experience_level", "intermediate"),
         budget_constraints |-> [max_hourly_rate |-> None],
         availability_requirements |-> [days_of_week |-> <<1, 2>>, flexibility |-> Half],
         preferred_languages |-> FieldOr(data, "preferred_languages", <<"English">>),
         participants_count |-> FieldOr(data, "participants_count", 1) ])

\* MatchingRequest(**data): ValidationError when a required field is missing
\* or a value is outside what its field accepts
MatchingRequest(data) ==
    IF RequestRequired \ DOMAIN data # {} THEN Raise
    ELSE IF data.session_type \notin SessionType THEN Raise
    ELSE IF data.experience_level \notin ExpertiseLevel THEN Raise
    ELSE IF FieldOr(data, "participants_count", 1) < 1 THEN Raise
    ELSE IF FieldOr(data, "session_duration_minutes", 60) < 15 THEN Raise
    ELSE IF FieldOr(data, "total_sessions", 1) < 1 THEN Raise
    ELSE RequestFrom(data,
                     [i \in DOMAIN data.skills_required |->
                         SkillRequirement(data.skills_required[i])],
                     BudgetConstraint(data.budget_constraints),
                     AvailabilityRequirement(data.availability_requirements))

\* MatchingResponse(**kwargs): ValidationError unless every required field
\* is among the keyword arguments
MatchingResponse(kwargs) == IF ResponseRequired \ kwargs # {} THEN Raise ELSE Ok(kwargs)

\* the keyword arguments manual_match / handle_matching_request pass
ManualMatchKwargs == {"request_id", "matches", "processing_time_ms", "algorithm_version"}
KafkaHandlerKwargs == ManualMatchKwargs \cup {"timestamp"}

\* the JSON documents the handlers are driven with
ValidDocument ==
    [ request_id |-> "req_1", company_id |-> "c1", program_id |-> "p1", title |-> "t",
      description |-> "d", session_type |-> "one_on_one",
      skills_required |-> <<[name |-> "react", level |-> "expert"]>>,
      experience_level |-> "intermediate",
      budget_constraints |-> [currency |-> "USD"],
      availability_requirements |-> [days_of_week |-> <<1, 2>>, time_slots |-> <<"morning">>] ]

\* ValidDocument without one of its fields
Without(data, field) == [f \in DOMAIN data \ {field} |-> data[f]]

GroupDocument ==
    [f \in DOMAIN ValidDocument \cup {"participants_count"} |->
        IF f = "participants_count" THEN 6
        ELSE IF f = "session_type" THEN "group"
        ELSE IF f = "skills_required" THEN <<>>
        ELSE ValidDocument[f]]

InvalidDocuments ==
    { [unknown |-> "x"],
      Without(ValidDocument, "company_id"),
      [ValidDocument EXCEPT !.skills_required =
          <<[name |-> "react", level |-> "expert", weight |-> Rat(3, 2)]>>],
      [ValidDocument EXCEPT !.skills_required = <<[name |-> "react", level |-> "guru"]>>],
      [ValidDocument EXCEPT !.availability_requirements.days_of_week = <<1, 7>>],
      [GroupDocument EXCEPT !.participants_count = 0] }

Documents == {ValidDocument, GroupDocument} \cup InvalidDocuments

ApiTimes == {10, 25}

\* everything but the front's own state
serviceVars ==
    <<config, itemFault, weights, coaches_cache, last_coach_refresh, redis_coaches,
      redis_results, redis_stats, total_requests_processed, total_matches_generated,
      average_processing_time, last_processing_time, call, threads, roster_version>>

\* KafkaService.publish_response(topic, response): the message delivered, or
\* an exception (re-raised) when the broker cannot be reached
publish_response(kafka_up, topic, request_id) ==
    IF kafka_up THEN Ok([topic |-> topic, request_id |-> request_id]) ELSE Raise

\* the try block of a handler after MatchingRequest(**data) succeeded and
\* find_matches ran: "ok" when the MatchingResponse was built (and, for the
\* Kafka handler, published), "failure" when anything raised
TryOutcome(returned, response, publication) ==
    IF returned /\ ~response.raised /\ ~publication.raised THEN "ok" ELSE "failure"

\* manual_match: (response, 200) or the error body with 500
ManualMatchReply(data, parsed, returned, elapsed, read, response) ==
    [ handler |-> "manual_match", data |-> data, valid |-> ~parsed.raised,
      invoked |-> ~parsed.raised, returned |-> returned, elapsed |-> elapsed,
      processing_time_ms |-> read, kafka_up |-> TRUE,
      answer |-> IF ~parsed.raised THEN TryOutcome(returned, response, Ok(<<>>))
                 ELSE "failure",
      status |-> IF ~parsed.raised /\ TryOutcome(returned, response, Ok(<<>>)) = "ok"
                 THEN 200 ELSE 500,
      sent |-> <<>>, raised |-> FALSE, run |-> reply.run + 1 ]

\* handle_matching_request: the response published on the response topic,
\* or, from the except clause, the error published on the error topic; the
\* handler raises when that last publication raises
KafkaReplySent(data, parsed, returned, elapsed, read, outcome, error_publication) ==
    [ handler |-> "handle_matching_request", data |-> data, valid |-> ~parsed.raised,
      invoked |-> ~parsed.raised, returned |-> returned, elapsed |-> elapsed,
      processing_time_ms |-> read, kafka_up |-> ~error_publication.raised,
      answer |-> outcome,
      status |-> 0,
      sent |-> IF outcome = "ok" THEN <<"response">>
               ELSE IF error_publication.raised THEN <<>> ELSE <<"error">>,
      raised |-> outcome # "ok" /\ error_publication.raised,
      run |-> reply.run + 1 ]

KafkaReply(data, parsed, returned, elapsed, read, response, kafka_up) ==
    KafkaReplySent(data, parsed, returned, elapsed, read,
                   IF ~parsed.raised
                   THEN TryOutcome(returned, response,
                                   publish_response(kafka_up, "response", data.request_id))
                   ELSE "failure",
                   publish_response(kafka_up, "error", FieldOr(data, "request_id", "unknown")))

\* the part of both handlers up to the return of find_matches: the service
\* is called only once the document validated
ValidateAndMatch(parsed, redis_up, processing_time) ==
    IF parsed.raised THEN UNCHANGED serviceVars
    ELSE FindMatchesWith(Val(parsed), redis_up, processing_time,
                         _get_available_coaches(redis_up, <<>>, NotAsked))

\* POST /api/match
ManualMatchWith(data, parsed, redis_up, processing_time) ==
    /\ ValidateAndMatch(parsed, redis_up, processing_time)
    /\ reply' = ManualMatchReply(data, parsed,
                                 ~parsed.raised /\ call'.outcome = "returned",
                                 IF parsed.raised THEN 0 ELSE processing_time,
                                 last_processing_time',
                                 MatchingResponse(ManualMatchKwargs))
    /\ UNCHANGED <<published, consumer>>

manual_match(data, redis_up, processing_time) ==
    /\ reply.run < MaxHandled
    /\ ManualMatchWith(data, MatchingRequest(data), redis_up, processing_time)

\* handle_matching_request(message, ...), the callback of the consumer
HandleWith(data, parsed, redis_up, processing_time, kafka_up) ==
    /\ ValidateAndMatch(parsed, redis_up, processing_time)
    /\ reply' = KafkaReply(data, parsed,
                           ~parsed.raised /\ call'.outcome = "returned",
                           IF parsed.raised THEN 0 ELSE processing_time,
                           last_processing_time',
                           MatchingResponse(KafkaHandlerKwargs), kafka_up)
    /\ published' = published \o
           [i \in DOMAIN reply'.sent |->
               [topic |-> reply'.sent[i],
                request_id |-> FieldOr(data, "request_id", "unknown")]]

handle_matching_request(data, redis_up, processing_time, kafka_up) ==
    HandleWith(data, MatchingRequest(data), redis_up, processing_time, kafka_up)

(***************************************************************************)
(* The consumer thread (kafka_service.py 114-165) and stop_consumer        *)
(***************************************************************************)
\* what consumer.poll(timeout=1.0) gives that is no request: nothing, a
\* message carrying an error, a KafkaException, a payload json.loads
\* rejects
IdlePolls == {"nothing", "error_message", "kafka_exception", "undecodable"}

\* lines 117-125: ensure_topics_exist, subscribe, self.is_running = True;
\* an exception there leaves through the outer except and the finally
Subscribe(ok) ==
    /\ consumer.pc = "start"
    /\ consumer' = IF ok THEN [consumer EXCEPT !.pc = "loop", !.is_running = TRUE]
                   ELSE [consumer EXCEPT !.pc = "closed", !.closed = TRUE,
                                         !.last = "failed"]
    /\ UNCHANGED <<serviceVars, reply, published>>

\* the test of "while self.is_running:"; leaving the loop runs the finally
\* clause, self.consumer.close()
LoopTest ==
    /\ consumer.pc = "loop"
    /\ consumer' = IF consumer.is_running THEN [consumer EXCEPT !.pc = "poll"]
                   ELSE [consumer EXCEPT !.pc = "closed", !.closed = TRUE]
    /\ UNCHANGED <<serviceVars, reply, published>>

\* one pass of the loop body that handles no request
PollIdle(polled) ==
    /\ consumer.pc = "poll"
    /\ consumer' = [consumer EXCEPT !.pc = "loop", !.last = polled]
    /\ UNCHANGED <<serviceVars, reply, published>>

\* one pass of the loop body with a decoded request: the callback runs; an
\* exception it raises is logged by the inner except
PollMessage(data, redis_up, processing_time, kafka_up) ==
    /\ consumer.pc = "poll"
    /\ reply.run < MaxHandled
    /\ handle_matching_request(data, redis_up, processing_time, kafka_up)
    /\ consumer' = [consumer EXCEPT !.pc = "loop",
                       !.last = IF reply'.raised THEN "callback_raised" ELSE "handled"]

\* KafkaService.stop_consumer, called from another thread
stop_consumer ==
    /\ ~consumer.stop_requested
    /\ consumer' = [consumer EXCEPT !.is_running = FALSE, !.stop_requested = TRUE]
    /\ UNCHANGED <<serviceVars, reply, published>>

InitApi ==
    /\ config = DefaultConfig
    /\ itemFault = {}
    /\ weights = get_matching_weights(config)
    /\ coaches_cache = ThreadRoster
    /\ last_coach_refresh = "recent"
    /\ redis_coaches = EmptyStore
    /\ redis_results = EmptyStore
    /\ redis_stats = <<>>
    /\ total_requests_processed = 0
    /\ total_matches_generated = 0
    /\ average_processing_time = Zero
    /\ last_processing_time = 0
    /\ call = NoCall
    /\ threads = NoThreads
    /\ roster_version = 0
    /\ reply = NoReply
    /\ published = <<>>
    /\ consumer = ConsumerCreated

ConsumerStep ==
    \/ \E ok \in BOOLEAN : Subscribe(ok)
    \/ LoopTest
    \/ \E polled \in IdlePolls : PollIdle(polled)
    \/ \E data \in Documents, processing_time \in ApiTimes, kafka_up \in BOOLEAN :
          PollMessage(data, TRUE, processing_time, kafka_up)

NextApi ==
    \/ ConsumerStep
    \/ stop_consumer
    \/ \E data \in Documents, processing_time \in ApiTimes :
          manual_match(data, TRUE, processing_time)

SpecApi == InitApi /\ [][NextApi]_vars

\* the consumer thread keeps being scheduled: poll returns within its
\* timeout and the callback returns
SpecApiFair == SpecApi /\ WF_vars(ConsumerStep)

(***************************************************************************)
(* Properties                                                              *)
(***************************************************************************)
IsFindMatches == call.op = "find_matches"

\* the scoring outcomes of the last call that produced a MatchResult
Produced == {i \in DOMAIN call.attempts : ~call.attempts[i].raised}

\* C1: every match_score that _calculate_match_score produces, for a coach
\* and request reaching it and the weights of get_matching_weights, is
\* neither below 0 nor above 1.
C1_MatchScoreInUnit ==
    IsFindMatches =>
       \A i \in Produced :
          /\ RLe(Zero, Val(call.attempts[i]).match_score)
          /\ RLe(Val(call.attempts[i]).match_score, One)

\* the weighted sum of the sub-scores of a produced MatchResult
WeightedSum(m) ==
    RSum(<< RMul(m.skill_score, weights.skills),
            RMul(m.experience_score, weights.experience),
            RMul(m.availability_score, weights.availability),
            RMul(m.price_score, weights.price),
            RMul(m.rating_score, weights.rating) >>)

\* C1 witness: a call scored a coach whose weighted sum exceeds 1, and the
\* match_score produced for it is the cap.
C1_Witness ==
    /\ IsFindMatches
    /\ \E i \in Produced : /\ RGt(WeightedSum(Val(call.attempts[i])), One)
                            /\ Val(call.attempts[i]).match_score = One

\* C2: the list find_matches returns is in non-increasing order of
\* match_score: each result scores at least as much as the one after it.
C2_ResultsNonIncreasing ==
    IsFindMatches =>
       \A i \in 1..(Len(call.result) - 1) :
          RGe(call.result[i].match_score, call.result[i + 1].match_score)

\* C2 witness: two results with different scores came back, and the better
\* one was visited second by the scoring loop.
C2_Witness ==
    /\ IsFindMatches
    /\ Len(call.result) >= 2
    /\ RGt(call.result[1].match_score, call.result[2].match_score)
    /\ call.result[1].coach = call.filtered[2]
    /\ call.result[2].coach = call.filtered[1]

\* the survivors of the hard filters whose score reached MIN_MATCH_SCORE
Passing ==
    {i \in Produced : RGe(Val(call.attempts[i]).match_score, config.MIN_MATCH_SCORE)}

MinOf(a, b) == IF a <= b THEN a ELSE b

\* C3: the returned list is the first MAX_MATCHES_PER_REQUEST entries of the
\* score-sorted survivors at or above MIN_MATCH_SCORE: it holds as many of
\* them as the limit allows and nothing else, in non-increasing order, none
\* below the threshold, and no omitted one scores strictly higher than an
\* included one.
C3_TopOfThresholdedSurvivors ==
    (IsFindMatches /\ call.stage = "ranked") =>
       /\ Len(call.result) = MinOf(config.MAX_MATCHES_PER_REQUEST, Cardinality(Passing))
       /\ \A k \in DOMAIN call.result :
             RGe(call.result[k].match_score, config.MIN_MATCH_SCORE)
       /\ \A k \in 1..(Len(call.result) - 1) :
             RGe(call.result[k].match_score, call.result[k + 1].match_score)
       /\ \E f \in [DOMAIN call.result -> Passing] :
             /\ \A k, l \in DOMAIN f : f[k] = f[l] => k = l
             /\ \A k \in DOMAIN f : call.result[k] = Val(call.attempts[f[k]])
             /\ \A j \in Passing \ {f[k] : k \in DOMAIN f} :
                   \A k \in DOMAIN f :
                      RLe(Val(call.attempts[j]).match_score, call.result[k].match_score)

\* C3 witness: more survivors reached the threshold than the limit admits,
\* and the list was cut to the limit, keeping a coach the loop visited later.
C3_Witness ==
    /\ IsFindMatches
    /\ call.stage = "ranked"
    /\ Cardinality(Passing) > config.MAX_MATCHES_PER_REQUEST
    /\ Len(call.result) = config.MAX_MATCHES_PER_REQUEST
    /\ call.result[1].coach # call.filtered[1]

\* the five elimination conditions as the specification lists them
Eliminated(coach, request) ==
    \/ request.session_type \notin Range(coach.session_types)
    \/ /\ request.budget_constraints.max_hourly_rate # None
       /\ coach.hourly_rate > request.budget_constraints.max_hourly_rate[1]
    \/ coach.max_participants < request.participants_count
    \/ Range(request.preferred_languages) \cap Range(coach.languages) = {}
    \/ Range(request.availability_requirements.days_of_week)
          \cap {coach.availability[i].day_of_week : i \in DOMAIN coach.availability} = {}

NotEliminated(coach) == ~Eliminated(coach, call.request)

Ceilings == {0, 100, 150}

WithCeiling(request, c) ==
    [request EXCEPT !.budget_constraints.max_hourly_rate = Some(c)]

SurvivorsUnder(c) == _apply_hard_filters(call.coaches, WithCeiling(call.request, c))

FaultyAtFilter ==
    {i \in DOMAIN call.coaches : HardFilterStep(call.coaches[i], call.request) = "raise"}

\* the survivors of the last call whose scoring raised
FaultyAtScoring == {i \in DOMAIN call.attempts : call.attempts[i].raised}

\* C6: when a step of find_matches raises for one coach, in the hard
\* filters or in scoring, find_matches returns and that coach is in no
\* result.
C6_CandidateFaultSkipped ==
    (IsFindMatches /\ (FaultyAtFilter # {} \/ FaultyAtScoring # {})) =>
       /\ call.outcome = "returned"
       /\ \A k \in DOMAIN call.result :
             /\ \A i \in FaultyAtFilter : call.result[k].coach # call.coaches[i]
             /\ \A i \in FaultyAtScoring : call.result[k].coach # call.filtered[i]

UpstreamFailures == {"error", "timeout", "bad_status"}

\* C7: a find_matches call whose refresh could read nothing from the cache
\* (Redis unreachable) and whose upstream fetch failed leaves a non-empty
\* roster and returns a list.
C7_TotalFailureStillAnswers ==
    (IsFindMatches /\ call.refresh.ran /\ ~call.redis_up
                   /\ call.refresh.upstream \in UpstreamFailures) =>
       /\ coaches_cache # <<>>
       /\ call.outcome = "returned"

\* C8: a refresh that got no roster from the cache and whose upstream fetch
\* failed keeps a non-empty previous roster as it was, and installs the
\* sample roster only over an empty one.
C8_PreviousRosterRetained ==
    (call.refresh.ran /\ call.refresh.cache_read = <<>>
                      /\ call.refresh.upstream \in UpstreamFailures) =>
       IF call.roster_before # <<>>
       THEN coaches_cache = call.roster_before
       ELSE coaches_cache = _get_mock_coaches

\* the documents of a cache read are coach profiles
IsRoster(docs) == \A i \in DOMAIN docs : DOMAIN docs[i] = ProfileFields

\* C9: a refresh reads the cache first; a non-empty roster read from it is
\* adopted, the roster is marked fresh and the upstream is not contacted;
\* the upstream is contacted only when the cache returned nothing, and
\* after a successful fetch one write per fetched coach is issued, with
\* the configured TTL, and the roster is marked fresh.
C9_RefreshSourceOrder ==
    call.refresh.ran =>
       /\ call.refresh.cache_read # <<>> =>
             /\ call.refresh.upstream = "not_contacted"
             /\ call.refresh.writes = <<>>
             /\ IsRoster(call.refresh.cache_read) =>
                   /\ coaches_cache = call.refresh.cache_read
                   /\ last_coach_refresh = "recent"
       /\ call.refresh.upstream # "not_contacted" => call.refresh.cache_read = <<>>
       /\ call.refresh.upstream = "ok" =>
             /\ last_coach_refresh = "recent"
             /\ Len(call.refresh.writes) = Len(coaches_cache)
             /\ \A i \in DOMAIN coaches_cache :
                   /\ call.refresh.writes[i].coach_id = coaches_cache[i].coach_id
                   /\ call.refresh.writes[i].ttl = COACH_DATA_TTL
                   /\ call.redis_up =>
                         /\ coaches_cache[i].coach_id \in DOMAIN redis_coaches
                         /\ redis_coaches[coaches_cache[i].coach_id].ttl = COACH_DATA_TTL
                         /\ redis_coaches[coaches_cache[i].coach_id].data = coaches_cache[i]

\* C9 witness: a refresh found the cache empty, fetched two coaches from
\* the backend and wrote both to Redis.
C9_Witness ==
    /\ call.refresh.ran
    /\ call.redis_up
    /\ call.refresh.upstream = "ok"
    /\ Len(call.refresh.writes) >= 2
    /\ \A i \in DOMAIN coaches_cache : coaches_cache[i].coach_id \in DOMAIN redis_coaches

\* C10: every result of find_matches refers to a coach of the in-memory
\* roster that is active and accepts new clients; no coach of the roster
\* that is inactive or not accepting appears in a result.
C10_ResultsOnlyAvailableCoaches ==
    IsFindMatches =>
       \A k \in DOMAIN call.result :
          /\ \E i \in DOMAIN coaches_cache :
                /\ coaches_cache[i] = call.result[k].coach
                /\ coaches_cache[i].is_active
                /\ coaches_cache[i].can_accept_new_clients
          /\ \A i \in DOMAIN coaches_cache :
                coaches_cache[i].coach_id = call.result[k].coach.coach_id =>
                   (coaches_cache[i].is_active /\ coaches_cache[i].can_accept_new_clients)

\* C10 witness: the roster holds a coach that accepts no new clients, ahead
\* of one that does, and find_matches returned a result.
C10_Witness ==
    /\ IsFindMatches
    /\ call.result # <<>>
    /\ Len(coaches_cache) >= 2
    /\ ~coaches_cache[1].can_accept_new_clients

\* where a coach stands in the list the hard filters were given
RosterIndex(coach) == CHOOSE i \in DOMAIN call.coaches : call.coaches[i] = coach

\* C11: two results with equal match_score stand in the order in which
\* their coaches stood in the list handed to the hard filters.
C11_TiesKeepRosterOrder ==
    IsFindMatches =>
       \A k, l \in DOMAIN call.result :
          (k < l /\ call.result[k].match_score = call.result[l].match_score)
             => RosterIndex(call.result[k].coach) < RosterIndex(call.result[l].coach)

\* C11 witness: two results tie, a coach that scores lower stood between
\* them in the roster, and all three came back.
C11_Witness ==
    /\ IsFindMatches
    /\ Len(call.result) = 3
    /\ call.result[1].match_score = call.result[2].match_score
    /\ RGt(call.result[2].match_score, call.result[3].match_score)
    /\ RosterIndex(call.result[1].coach) = 1
    /\ RosterIndex(call.result[3].coach) = 2

\* the coach with one more skill
WithSkill(coach, name, level, years) ==
    [coach EXCEPT !.skills = Append(@, Skill(name, level, years))]

\* the years of experience a skill is added with
AddedYears == {0, 5}

\* the mandatory required skills of the last call's request that a coach lacks
MissingMandatory(coach) ==
    {j \in DOMAIN call.request.skills_required :
        /\ call.request.skills_required[j].mandatory
        /\ _find_coach_skill(coach, call.request.skills_required[j].name) = <<>>}

SkillScoreOf(coach) == Val(_calculate_skill_score(coach, call.request))

\* C12: a coach missing a mandatory required skill has a skill sub-score
\* strictly lower than the same coach with that skill, at any level and
\* with any experience, for every request.
C12_MissingMandatoryStrictlyLower ==
    IsFindMatches =>
       \A i \in DOMAIN call.coaches :
          \A j \in MissingMandatory(call.coaches[i]) :
             \A level \in ExpertiseLevel, years \in AddedYears :
                RLt(SkillScoreOf(call.coaches[i]),
                    SkillScoreOf(WithSkill(call.coaches[i],
                                           call.request.skills_required[j].name,
                                           level, years)))

\* C12 amended: the sub-score without the mandatory skill is never higher
\* than with it, and is strictly lower whenever that skill's weight is
\* positive and the sub-score with the skill is above 0.
C12_MissingMandatoryNeverHigher ==
    IsFindMatches =>
       \A i \in DOMAIN call.coaches :
          \A j \in MissingMandatory(call.coaches[i]) :
             \A level \in ExpertiseLevel, years \in AddedYears :
                /\ RLe(SkillScoreOf(call.coaches[i]),
                       SkillScoreOf(WithSkill(call.coaches[i],
                                              call.request.skills_required[j].name,
                                              level, years)))
                /\ ( /\ RGt(call.request.skills_required[j].weight, Zero)
                     /\ RGt(SkillScoreOf(WithSkill(call.coaches[i],
                                                   call.request.skills_required[j].name,
                                                   level, years)), Zero) )
                   => RLt(SkillScoreOf(call.coaches[i]),
                          SkillScoreOf(WithSkill(call.coaches[i],
                                                 call.request.skills_required[j].name,
                                                 level, years)))

\* C12 witness: a scored coach lacks a mandatory skill of positive weight
\* and still has a positive skill sub-score, below what it has with the
\* skill.
C12_Witness ==
    /\ IsFindMatches
    /\ \E i \in DOMAIN call.attempts :
          /\ ~call.attempts[i].raised
          /\ RGt(Val(call.attempts[i]).skill_score, Zero)
          /\ \E j \in MissingMandatory(call.filtered[i]) :
                /\ RGt(call.request.skills_required[j].weight, Zero)
                /\ RLt(Val(call.attempts[i]).skill_score,
                       SkillScoreOf(WithSkill(call.filtered[i],
                                              call.request.skills_required[j].name,
                                              "beginner", 0)))

\* the sub-scores and the confidence level computed for a coach that passed
\* the hard filters, those whose computation does not raise
ComputedScores(coach, request, skill, availability) ==
    (IF skill.raised THEN {} ELSE {Val(skill)})
    \cup (IF availability.raised THEN {} ELSE {Val(availability)})
    \cup {_calculate_experience_score(coach, request),
          _calculate_price_score(coach, request),
          _calculate_rating_score(coach)}
    \cup (IF skill.raised \/ availability.raised THEN {}
          ELSE {_calculate_confidence_level(Val(skill),
                                            _calculate_experience_score(coach, request),
                                            Val(availability), coach)})

\* C13: the skill, experience, availability, price and rating sub-scores
\* and the confidence level computed for a coach and request, and those
\* held by every MatchResult built, are neither below 0 nor above 1.
C13_SubScoresInUnit ==
    IsFindMatches =>
       /\ \A i \in DOMAIN call.filtered :
             \A x \in ComputedScores(call.filtered[i], call.request,
                                     _calculate_skill_score(call.filtered[i], call.request),
                                     _calculate_availability_score(call.filtered[i],
                                                                   call.request)) :
                InUnit(x)
       /\ \A i \in Produced :
             /\ InUnit(Val(call.attempts[i]).skill_score)
             /\ InUnit(Val(call.attempts[i]).experience_score)
             /\ InUnit(Val(call.attempts[i]).availability_score)
             /\ InUnit(Val(call.attempts[i]).price_score)
             /\ InUnit(Val(call.attempts[i]).rating_score)
             /\ InUnit(Val(call.attempts[i]).confidence_level)

\* C13 witness: a MatchResult was built for a coach whose rating, session
\* and success bonuses add up to more than 1 and whose rating score is 1.
C13_Witness ==
    /\ IsFindMatches
    /\ \E i \in Produced :
          /\ Val(call.attempts[i]).rating_score = One
          /\ RGt(RatingScoreUncapped(call.filtered[i]), One)

\* the five weights the scorer combines the sub-scores with
ScorerWeights ==
    <<weights.skills, weights.experience, weights.availability, weights.price,
      weights.rating>>

\* C14: the five weights held by the service are non-negative and sum to
\* 1, whatever configuration it started with.
C14_WeightsNormalised ==
    /\ \A i \in DOMAIN ScorerWeights : RLe(Zero, ScorerWeights[i])
    /\ RSum(ScorerWeights) = One

\* the configured weights sum to 0 or less, or one of them is outside [0,1]
Misconfigured(cfg) ==
    \/ RLe(RSum(<<cfg.SKILL_MATCH_WEIGHT, cfg.EXPERIENCE_WEIGHT, cfg.RATING_WEIGHT,
                   cfg.AVAILABILITY_WEIGHT, cfg.PRICE_WEIGHT>>), Zero)
    \/ validate_config(cfg) # <<>>

\* C15: a service configured with weights summing to 0 or less, or with a
\* weight outside [0,1], never serves a find_matches call.
C15_MisconfiguredNeverServes ==
    Misconfigured(config) => ~IsFindMatches

\* the result of a call as _cache_results stores it
Cached(results) ==
    [i \in DOMAIN results |-> [coach_id |-> results[i].coach.coach_id,
                                match_score |-> results[i].match_score]]

C17_EveryReturningCallCounted ==
    [][ (IsFindMatches' /\ call'.outcome = "returned")
        => /\ total_requests_processed' = total_requests_processed + 1
           /\ call'.redis_up => Len(redis_stats') = Len(redis_stats) + 1 ]_vars

IsStoreStats == call.op = "store_processing_stats" /\ call.redis_up

AllDone == \A t \in Threads : threads[t].pc = "done"

\* the calls that reached _update_statistics
Counted == {t \in Threads : threads[t].counted}

RECURSIVE MatchesOf(_)
MatchesOf(ts) ==
    IF ts = {} THEN 0
    ELSE LET t == CHOOSE u \in ts : TRUE
         IN threads[t].matches_found + MatchesOf(ts \ {t})

CompleteRosters ==
    {ThreadRoster} \cup {threads[t].built[1] : t \in {u \in Threads : threads[u].built # <<>>}}

\* C19: the roster attribute always holds a roster that was built whole,
\* and the list a find_matches call iterates is one such roster from its
\* first coach to its last, whatever refreshes run meanwhile.
C19_ReaderSeesWholeRoster ==
    /\ coaches_cache \in CompleteRosters
    /\ \A t \in Threads :
          /\ threads[t].pc = "iterate" =>
                /\ View(t) = threads[t].snapshot
                /\ threads[t].snapshot \in CompleteRosters
                /\ threads[t].coaches
                      = SelectSeq(Take(threads[t].snapshot, threads[t].index - 1), IsAvailable)
          /\ threads[t].pc \in {"read_requests", "write_requests", "read_matches",
                                 "write_matches", "finish", "done"} =>
                /\ threads[t].snapshot \in CompleteRosters
                /\ threads[t].coaches = SelectSeq(threads[t].snapshot, IsAvailable)

\* C19 witness: a call is half way through one roster while a refresh in
\* another thread has bound a different one.
C19_Witness ==
    \E t, u \in Threads :
       /\ threads[t].pc = "iterate"
       /\ threads[t].index = 2
       /\ Len(threads[t].snapshot) = 2
       /\ threads[u].built # <<>>
       /\ threads[u].pending = <<>>
       /\ coaches_cache = threads[u].built[1]
       /\ coaches_cache # threads[t].snapshot
       /\ Len(coaches_cache) = 2

\* C21: when the request names no required skill, the skill sub-score of
\* every coach of the roster is exactly 0.5, and so is the one held by
\* every MatchResult built.
C21_NoSkillsScoreHalf ==
    (IsFindMatches /\ call.request.skills_required = <<>>) =>
       /\ \A i \in DOMAIN call.coaches :
             _calculate_skill_score(call.coaches[i], call.request) = Ok(Half)
       /\ \A i \in Produced : Val(call.attempts[i]).skill_score = Half

\* C21 witness: a request without required skills was scored for two
\* coaches or more.
C21_Witness ==
    /\ IsFindMatches
    /\ call.request.skills_required = <<>>
    /\ Cardinality(Produced) >= 2
    /\ \E i \in Produced : Val(call.attempts[i]).skill_score = Half

RECURSIVE SumOfTimes(_)
\* the sum of the processing times of the samples of a log
SumOfTimes(log) ==
    IF log = <<>> THEN 0 ELSE Head(log).processing_time_ms + SumOfTimes(Tail(log))

\* every call that reached the statistics step left its sample in the log
AllSampled == Len(redis_stats) = total_requests_processed

\* C23: average_processing_time is the sum of the processing times of the
\* calls that reached the statistics step, divided by their number (the
\* times are those of the samples the calls pushed, when none was lost).
C23_AverageIsMean ==
    /\ total_requests_processed = 0 => average_processing_time = Zero
    /\ (AllSampled /\ total_requests_processed > 0) =>
          average_processing_time = Rat(SumOfTimes(redis_stats), total_requests_processed)

\* C23 witness: two calls of different durations were counted and a call
\* answered before the statistics step came after them; the mean is
\* (10 + 25) / 2.
C23_Witness ==
    /\ IsFindMatches
    /\ call.stage = "no_survivors"
    /\ total_requests_processed = 2
    /\ AllSampled
    /\ {redis_stats[i].processing_time_ms : i \in DOMAIN redis_stats} = {10, 25}
    /\ average_processing_time = Rat(35, 2)

\* C24: a find_matches call that reaches step (6) while the result cache and
\* the statistics store cannot be reached still returns, returns the ranked
\* list, and updates the in-process counters; the two stores keep what
\* they held.
C24_StoreFailureHarmless ==
    [][ (IsFindMatches' /\ ~call'.redis_up /\ call'.stage = "ranked")
        => /\ call'.outcome = "returned"
           /\ call'.result = Rank(call'.coaches, call'.request).result
           /\ total_requests_processed' = total_requests_processed + 1
           /\ total_matches_generated' = total_matches_generated + Len(call'.result)
           /\ RMul(average_processing_time', RInt(total_requests_processed'))
                 = RAdd(RMul(average_processing_time, RInt(total_requests_processed)),
                        RInt(last_processing_time'))
           /\ redis_stats' = redis_stats
           /\ redis_results' = redis_results ]_vars

C24_Witness ==
    /\ IsFindMatches /\ ~call.redis_up /\ call.stage = "ranked"
    /\ Len(call.result) >= 2
    /\ total_requests_processed = 2
    /\ total_matches_generated = 4
    /\ Len(redis_stats) = 1
    /\ DOMAIN redis_results # {}

\* a returned MatchResult meets the hard constraints of the request it
\* answers, a ceiling of 0 being a ceiling that is set
MeetsHardConstraints(m, request) ==
    /\ RGt(m.availability_overlap, Zero)
    /\ request.session_type \in Range(m.coach.session_types)
    /\ m.coach.max_participants >= request.participants_count
    /\ Range(request.preferred_languages) \cap Range(m.coach.languages) # {}
    /\ request.budget_constraints.max_hourly_rate # None
          => /\ RLe(m.price_difference_percent, Zero)
             /\ m.price_score \in {Rat(8, 10), One}

C26_OnlyFetchedCoachesCached ==
    (call.refresh.ran /\ call.refresh.writes # <<>>) =>
       /\ call.refresh.upstream = "ok"
       /\ \A i \in DOMAIN call.refresh.writes :
             \A j \in DOMAIN _get_mock_coaches :
                call.refresh.writes[i].coach_id # _get_mock_coaches[j].coach_id

\* C27: a refresh marks the roster fresh exactly when it adopted the cached
\* roster or fetched one from the upstream (status 200); a refresh that fell
\* back on the previous or the sample roster leaves the roster stale.
C27_FreshOnlyAfterSuccess ==
    call.refresh.ran =>
       (last_coach_refresh = "recent"
           <=> (call.refresh.path = "cache" \/ call.refresh.upstream = "ok"))

\* C22: a handler given a document that lacks a required field or holds a
\* weight, level, weekday or participant count out of range answers with a
\* failure (status 500, or the error topic while the broker is reachable,
\* never the response topic) without calling find_matches: no coach is
\* scored and the roster, the counters, the statistics log and the result
\* cache stay as they were.
C22_InvalidRejectedBeforeMatching ==
    [][ (reply'.run # reply.run /\ reply'.data \in InvalidDocuments)
        => /\ ~reply'.invoked
           /\ reply'.answer = "failure"
           /\ reply'.handler = "manual_match" => reply'.status = 500
           /\ reply'.handler = "handle_matching_request"
                 => /\ "response" \notin Range(reply'.sent)
                    /\ reply'.kafka_up => reply'.sent = <<"error">>
           /\ UNCHANGED <<call, coaches_cache, last_coach_refresh, redis_coaches,
                          redis_results, redis_stats, total_requests_processed,
                          total_matches_generated, average_processing_time,
                          last_processing_time>> ]_vars

\* C22 witness: after a request was matched and cached, the Kafka handler
\* rejected a document asking for weekday 7 and published on the error topic.
C22_Witness ==
    /\ reply.handler = "handle_matching_request"
    /\ reply.data = [ValidDocument EXCEPT !.availability_requirements.days_of_week = <<1, 7>>]
    /\ ~reply.invoked
    /\ reply.sent = <<"error">>
    /\ total_requests_processed = 1
    /\ DOMAIN redis_results # {}

\* C28: the processing time a handler reads with get_last_processing_time
\* right after find_matches returned is the time that call took, whether
\* the call returned matches or an empty list.
C28_ReportedTimeIsOwn ==
    (reply.handler # "none" /\ reply.returned) => reply.processing_time_ms = reply.elapsed

\* C29: for a message handled by handle_matching_request (the broker
\* reachable) exactly one message is published: on the response topic when
\* the document was valid and find_matches returned, on the error topic
\* otherwise.
C29_ExactlyOnePublication ==
    (reply.handler = "handle_matching_request" /\ reply.kafka_up) =>
       reply.sent = IF reply.valid /\ reply.returned THEN <<"response">> ELSE <<"error">>

\* the consumer loop goes on after a payload it cannot decode and after a
\* callback that raised
LoopSurvivesBadMessage ==
    [][ (consumer.pc = "poll" /\ consumer'.pc # "poll"
           /\ consumer'.last \in {"undecodable", "callback_raised"})
        => /\ consumer'.pc = "loop"
           /\ ~consumer'.closed
           /\ consumer'.is_running = consumer.is_running ]_vars

\* a stop that finds the loop entered ends it
StopInLoopCloses ==
    (consumer.stop_requested /\ ~consumer.is_running /\ consumer.pc # "start")
        ~> consumer.closed

\* C30: once stop_consumer was called the consumer loop eventually exits
\* and the consumer is closed.
C30_StopEventuallyCloses == consumer.stop_requested ~> consumer.closed

====
